---- MODULE Spec2Model ----
(***************************************************************************)
(* A model of the OSINT lookup bot (src/main.py, src/config.py,            *)
(* src/database.py): the access gate, the lookup pipeline, the upstream    *)
(* invoker, the sanitizer, the copy cache and the persistent tables.       *)
(*                                                                         *)
(* Texts are sequences of one-character strings.  Handlers are tasks that  *)
(* advance from one await to the next; everything between two awaits is    *)
(* one atomic step.                                                        *)
(***************************************************************************)
EXTENDS Integers, Sequences, FiniteSets, TLC

VARIABLES
    admins,         \* table admins: the set of user_id
    bans,           \* table bans: user_id -> [reason, banned_by]
    users,          \* table users: user_id -> [lookups, last_seen, joined_date, since]
    lookups,        \* table lookups: the rows in insertion order
    bot_groups,     \* table bot_groups: the set of chat_id
    chat_member,    \* the platform's answer to get_chat_member: user -> channel -> status
    copy_cache,     \* copy_cache: token -> [data, time]
    stored,         \* history: stored[k] is the payload given to the k-th store_copy_data
    deliveries,     \* history: deliveries[k] counts the copy replies that carried token k
    now,            \* time.time()
    tasks,          \* running message_handler / start / help_command calls, by slot
    cbs,            \* running callback_handler calls, by slot
    san_text,       \* clean_branding: the text given to the first call
    san_extra,      \* clean_branding: the extra_blacklist argument
    san_out1,       \* result of clean_branding(san_text, san_extra)
    san_out2,       \* result of clean_branding(san_out1, san_extra)
    san_n,          \* number of calls made so far (0, 1, 2)
    shown           \* history: the lookup-derived texts sent to the user, [via, text]

tables  == <<admins, bans, users, lookups, bot_groups>>
cache   == <<copy_cache, stored, deliveries>>
sanvars == <<san_text, san_extra, san_out1, san_out2, san_n, shown>>
botvars == <<tables, chat_member, cache, now, tasks, cbs>>
vars    == <<botvars, sanvars>>

(***************************************************************************)
(* Configuration (src/config.py)                                           *)
(***************************************************************************)
GLOBAL_BLACKLIST ==
    << <<"@", "p", "a", "t", "e", "l", "k", "r", "i", "s", "h", "_", "9", "9">>,
       <<"p", "a", "t", "e", "l", "k", "r", "i", "s", "h", "_", "9", "9">>,
       <<"t", ".", "m", "e", "/", "a", "n", "s", "h", "a", "p", "i">>,
       <<"a", "n", "s", "h", "a", "p", "i">>,
       <<"@", "K", "o", "n", "_", "H", "u", "_", "M", "a", "i">>,
       <<"K", "o", "n", "_", "H", "u", "_", "M", "a", "i">>,
       <<"D", "m", " ", "t", "o", " ", "b", "u", "y", " ", "a", "c", "c", "e", "s", "s">>,
       <<"D", "m", " ", "t", "o", " ", "b", "u", "y", " ", "a", "c", "c", "e", "s", "s">>,
       <<"c", "r", "e", "d", "i", "t">>,
       <<"v", "a", "l", "i", "d", "i", "t", "y">>,
       <<"e", "x", "p", "i", "r", "e", "s", "_", "o", "n">> >>

\* COMMANDS["num"]["extra_blacklist"] (the rupee sign of the last entry is
\* written "Rs": the texts of the model never contain that entry)
NumExtraBlacklist ==
    << <<"d", "m", " ", "t", "o", " ", "b", "u", "y">>,
       <<"o", "w", "n", "e", "r">>,
       <<"@", "k", "o", "n", "_", "h", "u", "_", "m", "a", "i">>,
       <<"R", "u", "k", " ", "j", "a", " ", "b", "h", "e", "n", "c", "h", "o", " ", "i", "t", "n", "e", " ", "m", " ", "k", "y", "a", " ", "u", "n", "l", "i", "m", "i", "t", "e", "d", " ", "r", "e", "q", "u", "e", "s", "t", " ", "l", "e", "g", "a", "?", "?", " ", "P", "a", "i", "d", " ", "l", "e", "n", "a", " ", "h", " ", "t", "o", " ", "b", "o", "l", "o", " ", "1", "0", "0", "-", "4", "0", "0", "Rs", " ", "@", "S", "i", "m", "p", "l", "e", "g", "u", "y", "4", "4", "4">> >>

\* COMMANDS["tg2num"]["extra_blacklist"]
Tg2numExtraBlacklist ==
    << <<"c", "o", "d", "e">>,
       <<"v", "a", "l", "i", "d", "i", "t", "y">>,
       <<"h", "o", "u", "r", "s", "_", "r", "e", "m", "a", "i", "n", "i", "n", "g">>,
       <<"d", "a", "y", "s", "_", "r", "e", "m", "a", "i", "n", "i", "n", "g">>,
       <<"e", "x", "p", "i", "r", "e", "s", "_", "o", "n">>,
       <<"h", "t", "t", "p", "s", ":", "/", "/", "t", ".", "m", "e", "/", "A", "b", "d", "u", "l", "B", "o", "t", "z", "O", "f", "f", "i", "c", "i", "a", "l">>,
       <<"A", "b", "d", "u", "l", "D", "e", "v", "S", "t", "o", "r", "e", "B", "o", "t">>,
       <<"@", "A", "b", "d", "u", "l", "D", "e", "v", "S", "t", "o", "r", "e", "B", "o", "t">>,
       <<"c", "r", "e", "d", "i", "t">> >>

\* COMMANDS[cmd].get("extra_blacklist", []) of the other commands
NoExtraBlacklist == << >>

(***************************************************************************)
(* Sanitizer: clean_branding (src/main.py)                                 *)
(***************************************************************************)
UpperCase ==
    <<"A", "B", "C", "D", "E", "F", "G", "H", "I", "J", "K", "L", "M",
      "N", "O", "P", "Q", "R", "S", "T", "U", "V", "W", "X", "Y", "Z">>
LowerCase ==
    <<"a", "b", "c", "d", "e", "f", "g", "h", "i", "j", "k", "l", "m",
      "n", "o", "p", "q", "r", "s", "t", "u", "v", "w", "x", "y", "z">>

\* the case folding of flags=re.IGNORECASE
Fold(c) ==
    IF \E i \in 1..Len(UpperCase) : UpperCase[i] = c
    THEN LowerCase[CHOOSE i \in 1..Len(UpperCase) : UpperCase[i] = c]
    ELSE c

\* what \s and str.strip() take for whitespace
IsSpace(c) == c \in {" ", "\n", "\t", "\r"}

\* re.escape(item) matched at the start of t, ignoring case
MatchesAt(t, item) ==
    /\ Len(item) <= Len(t)
    /\ \A i \in 1..Len(item) : Fold(t[i]) = Fold(item[i])

\* some occurrence of item in t, in any letter-case
ContainsCI(t, item) ==
    \E k \in 0..(Len(t) - Len(item)) :
        \A i \in 1..Len(item) : Fold(t[k + i]) = Fold(item[i])

\* the positions of t at which item matches
MatchStarts(t, item) ==
    { k \in 1..(Len(t) - Len(item) + 1) : MatchesAt(SubSeq(t, k, Len(t)), item) }

\* re.sub(re.escape(item), '', t, flags=re.IGNORECASE): one pass from the
\* left over the non-overlapping matches (the text up to the leftmost match
\* is kept, the match is dropped, the pass goes on behind it)
RECURSIVE ReSubRemove(_, _)
ReSubRemove(t, item) ==
    IF Len(item) = 0 \/ MatchStarts(t, item) = {} THEN t
    ELSE LET k == CHOOSE k \in MatchStarts(t, item) : \A m \in MatchStarts(t, item) : k <= m
         IN  SubSeq(t, 1, k - 1) \o ReSubRemove(SubSeq(t, k + Len(item), Len(t)), item)

\* for item in blacklist: text = re.sub(...)
RECURSIVE RemoveBlacklist(_, _)
RemoveBlacklist(t, blacklist) ==
    IF blacklist = << >> THEN t
    ELSE LET rest == ReSubRemove(t, Head(blacklist))
         IN  IF rest = << >> THEN rest ELSE RemoveBlacklist(rest, Tail(blacklist))

\* length of the longest prefix of t made of whitespace
RECURSIVE SpaceRun(_)
SpaceRun(t) ==
    IF t = << >> \/ ~IsSpace(Head(t)) THEN 0 ELSE 1 + SpaceRun(Tail(t))

\* the last newline among the first k characters of t, 0 when there is none
LastNewline(t, k) ==
    IF \E j \in 1..k : t[j] = "\n"
    THEN CHOOSE j \in 1..k : t[j] = "\n" /\ \A m \in (j + 1)..k : t[m] # "\n"
    ELSE 0

\* re.sub(r'\n\s*\n', '\n\n', t): \s* is greedy and backtracks to the last
\* newline of the whitespace run
\* the newlines of t that start a match of \n\s*\n
BlankLineStarts(t) ==
    { p \in 1..Len(t) :
        /\ t[p] = "\n"
        /\ LastNewline(SubSeq(t, p + 1, Len(t)), SpaceRun(SubSeq(t, p + 1, Len(t)))) > 0 }

RECURSIVE CollapseBlankLines(_)
CollapseBlankLines(t) ==
    IF BlankLineStarts(t) = {} THEN t
    ELSE LET p    == CHOOSE p \in BlankLineStarts(t) : \A m \in BlankLineStarts(t) : p <= m
             rest == SubSeq(t, p + 1, Len(t))
             j    == LastNewline(rest, SpaceRun(rest))
         IN  SubSeq(t, 1, p - 1) \o <<"\n", "\n">>
                 \o CollapseBlankLines(SubSeq(rest, j + 1, Len(rest)))

\* length of the longest prefix of t made of blanks (' ')
RECURSIVE BlankRun(_)
BlankRun(t) ==
    IF t = << >> \/ Head(t) # " " THEN 0 ELSE 1 + BlankRun(Tail(t))

\* re.sub(r' +', ' ', t)
RECURSIVE CollapseSpaces(_)
CollapseSpaces(t) ==
    IF \A i \in 1..Len(t) : t[i] # " " THEN t
    ELSE LET p == CHOOSE p \in 1..Len(t) : t[p] = " " /\ \A m \in 1..(p - 1) : t[m] # " "
         IN  SubSeq(t, 1, p)
                 \o CollapseSpaces(SubSeq(t, p + BlankRun(SubSeq(t, p, Len(t))), Len(t)))

\* t.strip()
Strip(t) ==
    IF \A i \in 1..Len(t) : IsSpace(t[i]) THEN << >>
    ELSE LET a == CHOOSE i \in 1..Len(t) :
                      ~IsSpace(t[i]) /\ \A m \in 1..(i - 1) : IsSpace(t[m])
             b == CHOOSE i \in 1..Len(t) :
                      ~IsSpace(t[i]) /\ \A m \in (i + 1)..Len(t) : IsSpace(t[m])
         IN  SubSeq(t, a, b)

\* blacklist = GLOBAL_BLACKLIST.copy(); blacklist.extend(extra_blacklist)
EffectiveBlacklist(extra_blacklist) == GLOBAL_BLACKLIST \o extra_blacklist

clean_branding(t, extra_blacklist) ==
    IF t = << >> THEN t
    ELSE Strip(CollapseSpaces(CollapseBlankLines(
             RemoveBlacklist(t, EffectiveBlacklist(extra_blacklist)))))

(***************************************************************************)
(* Identities, chats and commands                                          *)
(***************************************************************************)
\* config.OWNER_ID and the second entry of config.INITIAL_ADMINS (as
\* strings: identifiers are only ever compared for equality)
OWNER_ID == "8104850843"
INITIAL_ADMINS == {"8104850843", "5987905091"}

\* an identifier that is in no configuration list
RegularUsers == {"1001"}
UserIds == INITIAL_ADMINS \cup RegularUsers

FORCE_JOIN_CHANNELS ==
    << [name |-> "All Data Here", link |-> "https://t.me/all_data_here", id |-> "-1003090922367"],
       [name |-> "OSINT Lookup", link |-> "https://t.me/osint_lookup", id |-> "-1003698567122"] >>
ChannelIds == { FORCE_JOIN_CHANNELS[i].id : i \in 1..Len(FORCE_JOIN_CHANNELS) }

\* member.status as get_chat_member reports it; "error" is the call raising
Statuses == {"member", "left", "kicked", "error"}

\* update.effective_chat.type
ChatTypes == {"private", "group"}

\* the command catalog: two of its entries, with the fields the model reads
COMMANDS ==
    [ num    |-> [param |-> "10-digit number", log |-> "-1003482423742",
                  extra_blacklist |-> NumExtraBlacklist],
      tg2num |-> [param |-> "user id", log |-> "-1003642820243",
                  extra_blacklist |-> Tg2numExtraBlacklist] ]

\* command names that reach message_handler: one of the catalog, one unknown,
\* and an unknown one whose text starts with '/help'
HandlerCmds == {"num", "zzz", "helpme"}

\* text.startswith('/start') or text.startswith('/help') or text.startswith('/admin')
ExemptPrefix(cmd) == cmd \in {"helpme", "start", "help", "admin"}

BRANDING == [developer |-> "@Nullprotocol_X", powered_by |-> "NULL PROTOCOL"]

(***************************************************************************)
(* JSON values, the upstream invoker and the envelope                      *)
(***************************************************************************)
\* a parsed JSON value carries its Python type: dict, list or a scalar
Dict(m)   == [t |-> "dict", v |-> m]
List(l)   == [t |-> "list", v |-> l]
Scalar(x) == [t |-> "scalar", v |-> x]

HttpError(status) == "HTTP " \o ToString(status)

\* (an envelope that drops the upstream value of a list or scalar)
Envelope_branding_only(data) ==
    IF data.t = "dict"
    THEN Dict([k \in DOMAIN data.v \cup {"developer", "powered_by"} |->
                 IF k = "developer" THEN BRANDING.developer
                 ELSE IF k = "powered_by" THEN BRANDING.powered_by
                 ELSE data.v[k]])
    ELSE Dict([result |-> Scalar(0), developer |-> BRANDING.developer,
               powered_by |-> BRANDING.powered_by])

\* (an envelope in which a key of the upstream mapping wins over the branding)
Envelope_keep_upstream(data) ==
    IF data.t = "dict"
    THEN Dict([k \in DOMAIN data.v \cup {"developer", "powered_by"} |->
                 IF k \in DOMAIN data.v THEN data.v[k]
                 ELSE IF k = "developer" THEN BRANDING.developer
                 ELSE BRANDING.powered_by])
    ELSE Dict([result |-> data, developer |-> BRANDING.developer,
               powered_by |-> BRANDING.powered_by])

\* handle_command: "Add branding to the JSON data"
Envelope(data) ==
    IF data.t = "dict"
    THEN Dict([k \in DOMAIN data.v \cup {"developer", "powered_by"} |->
                 IF k = "developer" THEN BRANDING.developer
                 ELSE IF k = "powered_by" THEN BRANDING.powered_by
                 ELSE data.v[k]])
    ELSE Dict([result |-> data, developer |-> BRANDING.developer,
               powered_by |-> BRANDING.powered_by])

(***************************************************************************)
(* Rendered lengths.  A serialized envelope is described by the counts of  *)
(* its characters: len (all of json.dumps(data, indent=2,                  *)
(* ensure_ascii=False)), cut (those clean_branding removes), amp ('&'),    *)
(* angle ('<', '>') and quote (double and single quotes).                  *)
(***************************************************************************)
Ser(len, cut, amp, angle, quote) ==
    [len |-> len, cut |-> cut, amp |-> amp, angle |-> angle, quote |-> quote]

SizeThreshold == 4000
\* len of the footer that output_text appends to json.dumps(data)
OutputFooterLen == 81
\* len(extra_footer)
ExtraFooterLen == 89
\* len("<pre>") + len("</pre>")
PreTagsLen == 11

\* len(output_text)
OutputTextLen(ser) == ser.len + OutputFooterLen

\* len(html.escape(clean_branding(json_str, ...))): & -> &amp;  < -> &lt;
\* > -> &gt;  " -> &quot;  ' -> &#x27;
EscapedLen(ser) == (ser.len - ser.cut) + 4 * ser.amp + 3 * ser.angle + 5 * ser.quote

\* len(output_html)
OutputHtmlLen(ser) == PreTagsLen + EscapedLen(ser) + ExtraFooterLen

\* (a routing that sends a text of exactly SizeThreshold as a file)
Route_at_threshold(ser) ==
    IF OutputTextLen(ser) >= SizeThreshold THEN "file" ELSE "inline"
\* if len(output_text) > 4000: send as file, else as message
Route(ser) == IF OutputTextLen(ser) > SizeThreshold THEN "file" ELSE "inline"

\* log_text: the summary for the command's log channel.  LogFrameLen counts
\* the fixed characters of the f-string around user.id, username_display,
\* cmd, query and json.dumps(data, indent=2, ensure_ascii=False)
LogFrameLen == 62
\* len(log_text) > 4000
MirrorLimit == 4000
\* len("...")
EllipsisLen == 3
\* username_display of the model's users, and the query they send
UsernameDisplay == "@u"
RawQuery == "q"

\* len(log_text) as first built
LogTextLen(user, cmd, serlen) ==
    LogFrameLen + Len(user) + Len(UsernameDisplay) + Len(cmd) + Len(RawQuery) + serlen

\* len(log_text) as sent: log_text[:4000] + "..." when it is over 4000
MirrorLen(user, cmd, serlen) ==
    IF LogTextLen(user, cmd, serlen) > MirrorLimit
    THEN MirrorLimit + EllipsisLen
    ELSE LogTextLen(user, cmd, serlen)

\* The serialized envelope of an error payload or of a small body, and of a
\* body near the size threshold.
ErrorSer(data) ==
    IF data.v.error = "Request timeout" THEN Ser(99, 3, 0, 0, 12)
    ELSE IF data.v.error = "Invalid JSON response" THEN Ser(105, 3, 0, 0, 12)
    ELSE IF data.v.error = "Cannot connect to host" THEN Ser(106, 3, 0, 0, 12)
    ELSE Ser(92, 3, 0, 0, 12)

\* upstream bodies: the parsed value and the counts of the envelope's text
Body(val, ser) == [val |-> val, ser |-> ser]
SmallBodies ==
    { Body(Dict([a |-> 1]), Ser(79, 3, 0, 0, 10)),
      Body(List(<<1, 2, 3>>), Ser(108, 13, 0, 0, 10)),
      Body(Scalar(7), Ser(84, 3, 0, 0, 10)) }
NoBody == Body(Scalar(0), Ser(0, 0, 0, 0, 0))
\* a mapping that already carries a developer key
CollidingBodies ==
    { Body(Dict([developer |-> "@patelkrish_99", a |-> 1]), Ser(79, 3, 0, 0, 10)) }

\* len(json.dumps({"text": "", "developer": ..., "powered_by": ...}, indent=2))
TextEnvelopeLen == 83
\* the body {"text": "<n characters>"}
LongText(n) == Body(Dict([text |-> [chars |-> n]]), Ser(TextEnvelopeLen + n, 3, 0, 0, 12))
\* bodies whose output_text is 1 under, at and 1 over SizeThreshold
EdgeBodies ==
    { LongText(SizeThreshold - OutputFooterLen - TextEnvelopeLen + d) : d \in {-1, 0, 1} }

\* bodies whose log_text for user 1001 and /num is exactly MirrorLimit long
\* and 1 over it
LogEdgeBodies ==
    { LongText(MirrorLimit - LogTextLen("1001", "num", TextEnvelopeLen) + d) : d \in {0, 1} }

\* What one GET does, as the environment decides it:
\*   stage  "timeout"   asyncio.TimeoutError out of session.get
\*          "exception" another exception out of session.get, str(e) = msg
\*          "response"  the response head arrived with `status`
\*   read   how resp.json() ends: "ok" (body.val is returned), "bad_json"
\*          (the body does not parse), "timeout" (the 10 s run out while
\*          the body is read)
Outcome(stage, status, read, body, msg) ==
    [stage |-> stage, status |-> status, read |-> read, body |-> body, msg |-> msg]
Ok200(body) == Outcome("response", 200, "ok", body, "")
FailedOutcomes ==
    { Outcome("timeout", 0, "none", NoBody, ""),
      Outcome("exception", 0, "none", NoBody, "Cannot connect to host"),
      Outcome("response", 404, "none", NoBody, ""),
      Outcome("response", 500, "none", NoBody, ""),
      Outcome("response", 200, "bad_json", NoBody, ""),
      Outcome("response", 200, "timeout", NoBody, "") }
Outcomes ==
    FailedOutcomes \cup
    { Ok200(b) : b \in SmallBodies \cup CollidingBodies \cup EdgeBodies \cup LogEdgeBodies }

call_api(o) ==
    IF o.stage = "timeout" THEN Dict([error |-> "Request timeout"])
    ELSE IF o.stage = "exception" THEN Dict([error |-> o.msg])
    ELSE IF o.status = 200
         THEN IF o.read = "ok" THEN o.body.val
              ELSE Dict([error |-> "Invalid JSON response"])
         ELSE Dict([error |-> HttpError(o.status)])

\* the character counts of the envelope that call_api(o) leads to
SerOf(o) ==
    IF o.stage = "response" /\ o.status = 200 /\ o.read = "ok"
    THEN o.body.ser
    ELSE ErrorSer(call_api(o))

(***************************************************************************)
(* The tables (src/database.py)                                            *)
(***************************************************************************)
\* is_admin / is_banned
is_admin(user_id) == user_id \in admins
\* (a ban check that finds nobody)
is_banned_nobody(user_id) == FALSE
is_banned(user_id) == user_id \in DOMAIN bans

\* (an upsert that puts the counter back to 0 on a row that exists)
update_user_zeroing(tbl, user_id) ==
    [u \in DOMAIN tbl \cup {user_id} |->
        IF u = user_id
        THEN IF u \in DOMAIN tbl THEN [tbl[u] EXCEPT !.last_seen = now, !.lookups = 0]
             ELSE [lookups |-> 0, last_seen |-> now, joined_date |-> now,
                   since |-> Len(lookups)]
        ELSE tbl[u]]
\* (an INSERT OR REPLACE: the row that exists is written anew)
update_user_replace(tbl, user_id) ==
    [u \in DOMAIN tbl \cup {user_id} |->
        IF u = user_id
        THEN [lookups |-> 0, last_seen |-> now, joined_date |-> now, since |-> Len(lookups)]
        ELSE tbl[u]]
\* update_user: insert the row (lookups 0, last_seen and joined_date by
\* their defaults), or refresh the names and last_seen of the existing row
\* (lookups and joined_date are left alone; the names are not part of the
\* model).  since is history: the number of Lookup Records there were when
\* the row was inserted
update_user(tbl, user_id) ==
    [u \in DOMAIN tbl \cup {user_id} |->
        IF u = user_id
        THEN IF u \in DOMAIN tbl THEN [tbl[u] EXCEPT !.last_seen = now]
             ELSE [lookups |-> 0, last_seen |-> now, joined_date |-> now,
                   since |-> Len(lookups)]
        ELSE tbl[u]]

\* save_lookup: one INSERT and one UPDATE under a single commit
LookupRow(user_id, command, query, response) ==
    [user_id |-> user_id, command |-> command, query |-> query, response |-> response]
\* (a counter update that never counts)
save_lookup_users_skip(tbl, user_id) == tbl
\* (a counter written from a value read before the other writers wrote)
save_lookup_users_stale(tbl, user_id) ==
    [u \in DOMAIN tbl |->
        IF u = user_id THEN [tbl[u] EXCEPT !.lookups = 1] ELSE tbl[u]]
\* UPDATE users SET lookups = lookups + 1 WHERE user_id = ?
save_lookup_users(tbl, user_id) ==
    [u \in DOMAIN tbl |->
        IF u = user_id THEN [tbl[u] EXCEPT !.lookups = @ + 1] ELSE tbl[u]]

\* (an INSERT OR IGNORE: the first record of an identifier stays)
ban_user_keep_first(tbl, user_id, reason, banned_by) ==
    [u \in DOMAIN tbl \cup {user_id} |->
        IF u \in DOMAIN tbl THEN tbl[u] ELSE [reason |-> reason, banned_by |-> banned_by]]
\* ban_user: INSERT OR REPLACE on the primary key user_id
ban_user(tbl, user_id, reason, banned_by) ==
    [u \in DOMAIN tbl \cup {user_id} |->
        IF u = user_id THEN [reason |-> reason, banned_by |-> banned_by] ELSE tbl[u]]
\* unban_user: DELETE
unban_user(tbl, user_id) == [u \in DOMAIN tbl \ {user_id} |-> tbl[u]]

\* delete_user: DELETE FROM users WHERE user_id = ?
delete_user_row(tbl, user_id) == [u \in DOMAIN tbl \ {user_id} |-> tbl[u]]
\* (a delete that takes the user's Lookup Records along)
delete_user_lookups_cascade(tbl, user_id) ==
    SelectSeq(tbl, LAMBDA row : row.user_id # user_id)
\* delete_user and the lookups table: the one statement names users only,
\* and lookups.user_id is a plain column (no foreign key, no trigger)
delete_user_lookups(tbl, user_id) == tbl

(***************************************************************************)
(* The copy cache                                                          *)
(***************************************************************************)
CACHE_EXPIRY == 300

\* uuid.uuid4(): a token no earlier call returned
FreshToken == Len(stored) + 1

\* (a store that sweeps out the entries that have expired)
store_copy_data_sweep(c, uid, data) ==
    [k \in {k \in DOMAIN c : (now - c[k].time) < CACHE_EXPIRY} \cup {uid} |->
        IF k = uid THEN [data |-> data, time |-> now] ELSE c[k]]
\* copy_cache[uid] = {"data": data, "time": time.time()}
store_copy_data(c, uid, data) ==
    [k \in DOMAIN c \cup {uid} |->
        IF k = uid THEN [data |-> data, time |-> now] ELSE c[k]]

\* a check that still accepts an entry aged exactly CACHE_EXPIRY
CacheHit_inclusive(c, uid) == uid \in DOMAIN c /\ (now - c[uid].time) <= CACHE_EXPIRY

\* a removal that leaves the entry in place
CacheRemove_keep(c, uid) == c

\* entry and (time.time() - entry["time"]) < CACHE_EXPIRY
CacheHit(c, uid) == uid \in DOMAIN c /\ (now - c[uid].time) < CACHE_EXPIRY

\* del copy_cache[uid] / copy_cache.pop(uid, None)
CacheRemove(c, uid) == [k \in DOMAIN c \ {uid} |-> c[k]]

(***************************************************************************)
(* Handler tasks                                                           *)
(***************************************************************************)
NoData    == [t |-> "none", v |-> 0]
NoOutcome == Outcome("none", 0, "none", NoBody, "")

IdleTask ==
    [ kind |-> "none", pc |-> "idle", user |-> "", chat |-> "", cmd |-> "",
      hasq |-> FALSE,
      checks |-> << >>,     \* the gate's checks this call has evaluated, in order
      idx |-> 0,            \* check_force_join: the channel being asked about
      missing |-> << >>,    \* check_force_join: missing (channel indexes)
      seen |-> << >>,       \* check_force_join: what each query returned, in order
      keyboard |-> << >>,   \* the controls under the join prompt
      outcome |-> NoOutcome,\* what the GET of this call did
      result |-> NoData,    \* what call_api returned
      data |-> NoData,      \* handle_command: data (the envelope)
      ser |-> NoBody.ser,   \* the character counts of json.dumps(data)
      route |-> "none",     \* "file" or "inline"
      cmpLen |-> 0,         \* the length compared with the threshold
      sentLen |-> 0,        \* the length of the text sent to the user
      mirrorLen |-> 0,      \* the length of the summary sent to the log channel
      trail |-> << >>,      \* the steps of handle_command begun after call_api
      recipients |-> << >>, \* broadcast / bulk_dm: users / ids, in loop order
      attempts |-> << >>,   \* the copy_message_to_user calls made: [to, ok]
      success |-> 0,        \* broadcast / bulk_dm: success
      fail |-> 0,           \* broadcast / bulk_dm: fail
      report |-> [success |-> -1, fail |-> -1],  \* the counts of the closing reply
      token |-> 0,          \* the token behind the Copy button
      reply |-> "none",     \* the message the user got
      called |-> FALSE,     \* call_api was started
      saved |-> FALSE,      \* save_lookup committed
      failat |-> "none",    \* where save_lookup raised, if it did
      mirrored |-> FALSE,   \* the log channel got the summary
      arg |-> "",           \* an admin command: context.args[0] ("" when there is none)
      reason |-> "",        \* /ban: the words after the id
      prior |-> FALSE,      \* /ban, /unban: the target had a Ban record when the command ran
      allowed |-> FALSE,    \* the actor was the owner or in the admin table when the wrapper asked
      stable |-> TRUE ]     \* no ban, admin or membership change for the user since the call began

NewTask(kind, user, chat, cmd, hasq) ==
    [IdleTask EXCEPT !.kind = kind, !.user = user, !.chat = chat, !.cmd = cmd,
                     !.hasq = hasq,
                     !.pc = IF kind = "msg" THEN "scope" ELSE "upsert"]

Finish(t, reply) == [t EXCEPT !.pc = "done", !.reply = reply]

\* update.effective_chat.id
GroupChatId == "-1002000000001"
ChatId(t) == IF t.chat = "private" THEN t.user ELSE GroupChatId

\* a table or membership change for user u: calls of u in flight are no
\* longer judged against one state
Touch(u) ==
    [s \in DOMAIN tasks |->
        IF tasks[s].user = u THEN [tasks[s] EXCEPT !.stable = FALSE] ELSE tasks[s]]

MaxLookups == 1
MaxStores == 2

\* an update reaches start, help_command or message_handler, as long as
\* fewer than max Lookup Records are written
ArriveUpTo(s, kind, user, chat, cmd, hasq, max) ==
    /\ tasks[s].pc \in {"idle", "done"}
    /\ Len(lookups) < max
    /\ Len(stored) < MaxStores
    /\ \/ kind = "msg" /\ cmd \in HandlerCmds
       \/ kind \in {"start", "help"} /\ cmd = kind /\ ~hasq
    /\ tasks' = [tasks EXCEPT ![s] = NewTask(kind, user, chat, cmd, hasq)]
    /\ UNCHANGED <<tables, chat_member, cache, now, cbs, sanvars>>

Arrive(s, kind, user, chat, cmd, hasq) ==
    ArriveUpTo(s, kind, user, chat, cmd, hasq, MaxLookups)

\* (a scope check that lets every chat through)
ScopePasses_any_chat(user, chat, cmd) == TRUE
\* group_only: does the scope check let the update through
ScopePasses(user, chat, cmd) ==
    \/ chat # "private"
    \/ ExemptPrefix(cmd)
    \/ user = OWNER_ID
    \/ is_admin(user)

ScopeCheck(s) ==
    LET t  == tasks[s]
        t1 == [t EXCEPT !.checks = Append(@, "scope")]
    IN  /\ t.pc = "scope"
        /\ tasks' = [tasks EXCEPT ![s] =
                IF ScopePasses(t.user, t.chat, t.cmd)
                THEN [t1 EXCEPT !.pc = "gate"]
                ELSE Finish(t1, "redirect")]
        /\ UNCHANGED <<tables, chat_member, cache, now, cbs, sanvars>>

\* force_join_filter returned True: the handler goes on
Proceed(t) ==
    IF t.kind = "msg" THEN [t EXCEPT !.pc = "upsert"]
    ELSE Finish(t, IF t.kind = "start" THEN "welcome" ELSE "commands")

\* (a gate that lets only the owner skip the checks)
Privileged_owner_only(user) == user = OWNER_ID
\* force_join_filter: user.id == OWNER_ID or await is_admin(user.id)
Privileged(user) == user = OWNER_ID \/ is_admin(user)

GateAdmin(s) ==
    LET t == tasks[s]
    IN  /\ t.pc = "gate"
        /\ tasks' = [tasks EXCEPT ![s] =
                IF Privileged(t.user) THEN Proceed(t) ELSE [t EXCEPT !.pc = "ban"]]
        /\ UNCHANGED <<tables, chat_member, cache, now, cbs, sanvars>>

\* (a ban check that upserts the actor it looks at)
BanCheck_upserting(s) ==
    LET t  == tasks[s]
        t1 == [t EXCEPT !.checks = Append(@, "ban")]
    IN  /\ t.pc = "ban"
        /\ tasks' = [tasks EXCEPT ![s] =
                IF t.user \in DOMAIN bans
                THEN Finish(t1, "banned")
                ELSE [t1 EXCEPT !.pc = "member", !.idx = 1, !.missing = << >>]]
        /\ users' = update_user(users, t.user)
        /\ UNCHANGED <<admins, bans, lookups, bot_groups, chat_member, cache, now, cbs, sanvars>>

\* force_join_filter: if await is_banned(user.id): reply and return False
BanCheck(s) ==
    LET t  == tasks[s]
        t1 == [t EXCEPT !.checks = Append(@, "ban")]
    IN  /\ t.pc = "ban"
        /\ tasks' = [tasks EXCEPT ![s] =
                IF is_banned(t.user)
                THEN Finish(t1, "banned")
                ELSE [t1 EXCEPT !.pc = "member", !.idx = 1, !.missing = << >>]]
        /\ UNCHANGED <<tables, chat_member, cache, now, cbs, sanvars>>

\* (a check that only counts the status left)
IsMissing_left_only(status) == status = "left"
\* check_force_join: member.status in ['left', 'kicked'], or the call raised
IsMissing(status) == status \in {"left", "kicked", "error"}

\* get_force_join_keyboard(missing): a Join button per missing channel,
\* then the "I've joined" button
get_force_join_keyboard(missing) ==
    [i \in 1..(Len(missing) + 1) |->
        IF i <= Len(missing)
        THEN [url |-> FORCE_JOIN_CHANNELS[missing[i]].link, callback_data |-> ""]
        ELSE [url |-> "", callback_data |-> "verify_join"]]

\* check_force_join, one channel per step, and the end of force_join_filter
MemberQuery(s) ==
    LET t    == tasks[s]
        st   == chat_member[t.user][FORCE_JOIN_CHANNELS[t.idx].id]
        miss == IF IsMissing(st) THEN Append(t.missing, t.idx) ELSE t.missing
        t1   == [t EXCEPT !.missing = miss, !.seen = Append(@, st),
                          !.checks = IF t.idx = 1 THEN Append(@, "member") ELSE @]
    IN  /\ t.pc = "member"
        /\ tasks' = [tasks EXCEPT ![s] =
                IF t.idx < Len(FORCE_JOIN_CHANNELS) THEN [t1 EXCEPT !.idx = @ + 1]
                ELSE IF Len(miss) = 0 THEN Proceed(t1)
                ELSE Finish([t1 EXCEPT !.keyboard = get_force_join_keyboard(miss)], "join")]
        /\ UNCHANGED <<tables, chat_member, cache, now, cbs, sanvars>>

\* (a dispatch that does not look the command up in the catalog)
Dispatch_any_command(t) ==
    IF ~t.hasq THEN Finish(t, "usage")
    ELSE [t EXCEPT !.pc = "api", !.called = TRUE]

\* message_handler after the tracking, and the head of handle_command
Dispatch(t) ==
    IF ~t.hasq THEN Finish(t, "usage")
    ELSE IF t.cmd \notin DOMAIN COMMANDS THEN Finish(t, "notfound")
    ELSE [t EXCEPT !.pc = "api", !.called = TRUE]

\* await update_user(...) under try/except; ok = FALSE is the call raising
UpsertUser(s, ok) ==
    LET t == tasks[s]
    IN  /\ t.pc = "upsert"
        /\ users' = IF ok THEN update_user(users, t.user) ELSE users
        /\ tasks' = [tasks EXCEPT ![s] =
                IF t.kind # "msg" THEN [t EXCEPT !.pc = "gate"]
                ELSE IF t.chat \in {"group", "supergroup"} THEN [t EXCEPT !.pc = "group"]
                ELSE Dispatch(t)]
        /\ UNCHANGED <<admins, bans, lookups, bot_groups, chat_member, cache, now, cbs, sanvars>>

\* await add_or_update_group(...) under try/except
TrackGroup(s, ok) ==
    LET t == tasks[s]
    IN  /\ t.pc = "group"
        /\ bot_groups' = IF ok THEN bot_groups \cup {ChatId(t)} ELSE bot_groups
        /\ tasks' = [tasks EXCEPT ![s] = Dispatch(t)]
        /\ UNCHANGED <<admins, bans, users, lookups, chat_member, cache, now, cbs, sanvars>>

\* (an upstream call that never comes back)
ApiReturn_hang(s, o) == tasks[s].pc = "api" /\ UNCHANGED vars

\* data = await call_api(url) returns, and handle_command runs on to the
\* await of reply_document / reply_text (get_copy_button stores the data)
ApiReturn(s, o) ==
    LET t     == tasks[s]
        data  == Envelope(call_api(o))
        ser   == SerOf(o)
        route == Route(ser)
    IN  /\ t.pc = "api"
        /\ tasks' = [tasks EXCEPT ![s] =
                [t EXCEPT !.outcome = o, !.result = call_api(o),
                          !.data = data, !.ser = ser, !.route = route,
                          !.cmpLen = OutputTextLen(ser),
                          !.token = IF route = "inline" THEN FreshToken ELSE 0,
                          !.pc = "deliver"]]
        /\ IF route = "inline"
           THEN /\ copy_cache' = store_copy_data(copy_cache, FreshToken, data)
                /\ stored' = Append(stored, data)
                /\ deliveries' = Append(deliveries, 0)
           ELSE UNCHANGED cache
        /\ UNCHANGED <<tables, chat_member, now, cbs, sanvars>>

\* reply_document(output_text) or reply_text(output_html) is through
Deliver(s) ==
    LET t == tasks[s]
    IN  /\ t.pc = "deliver"
        /\ tasks' = [tasks EXCEPT ![s] =
                [t EXCEPT !.reply = t.route,
                          !.sentLen = IF t.route = "inline" THEN OutputHtmlLen(t.ser)
                                      ELSE OutputTextLen(t.ser),
                          !.trail = Append(@, "deliver"),
                          !.pc = "save"]]
        /\ UNCHANGED <<tables, chat_member, cache, now, cbs, sanvars>>

\* reply_document or reply_text raises: handle_command ends with the exception
DeliverRaises(s) ==
    LET t == tasks[s]
    IN  /\ t.pc = "deliver"
        /\ tasks' = [tasks EXCEPT ![s] =
                Finish([t EXCEPT !.trail = Append(@, "deliver")], "error")]
        /\ UNCHANGED <<tables, chat_member, cache, now, cbs, sanvars>>

\* (a failed save that ends the handler)
AfterSave_raise(t, ok) ==
    IF ok THEN [t EXCEPT !.saved = TRUE, !.trail = Append(@, "save"), !.pc = "mirror"]
    ELSE Finish([t EXCEPT !.trail = Append(@, "save")], "error")

\* try: await save_lookup(...) except Exception: logger.error(...)
AfterSave(t, ok) ==
    [t EXCEPT !.saved = ok, !.trail = Append(@, "save"), !.pc = "mirror"]

\* where save_lookup raises: nowhere, at the connect or the INSERT, at the
\* UPDATE, or at the commit
SaveFailures == {"none", "insert", "update", "commit"}

\* (a connection that commits each statement as it is executed)
InsertKept_autocommit(failat) == failat \in {"none", "update", "commit"}
\* the INSERT and the UPDATE run on one connection that is committed once,
\* after both; leaving `async with` on an exception closes the connection
\* with the transaction open, which drops both
InsertKept(failat) == failat = "none"
\* (an increment that is stored as soon as its statement has run)
UpdateKept_early(failat) == failat \in {"none", "commit"}
UpdateKept(failat) == failat = "none"

\* await save_lookup(...) under try/except, raising at failat
SaveLookupAt(s, failat) ==
    LET t == tasks[s]
    IN  /\ t.pc = "save"
        /\ failat \in SaveFailures
        /\ lookups' = IF InsertKept(failat)
                      THEN Append(lookups, LookupRow(t.user, t.cmd, RawQuery, t.data))
                      ELSE lookups
        /\ users' = IF UpdateKept(failat) THEN save_lookup_users(users, t.user) ELSE users
        /\ tasks' = [tasks EXCEPT ![s] =
                         [AfterSave(t, failat = "none") EXCEPT !.failat = failat]]
        /\ UNCHANGED <<admins, bans, bot_groups, chat_member, cache, now, cbs, sanvars>>

\* await save_lookup(...) under try/except: through (ok) or raising
SaveLookup(s, ok) == SaveLookupAt(s, IF ok THEN "none" ELSE "insert")

\* await context.bot.send_message(chat_id=cmd_info["log"], ...) under try/except
Mirror(s, ok) ==
    LET t == tasks[s]
    IN  /\ t.pc = "mirror"
        /\ tasks' = [tasks EXCEPT ![s] =
                [t EXCEPT !.mirrored = ok,
                          !.mirrorLen = MirrorLen(t.user, t.cmd, t.ser.len),
                          !.trail = Append(@, "mirror"),
                          !.pc = "done"]]
        /\ UNCHANGED <<tables, chat_member, cache, now, cbs, sanvars>>


(***************************************************************************)
(* broadcast and bulk_dm                                                   *)
(***************************************************************************)
MaxRecipients == 3

\* get_all_users(): the user ids of the table, one row each (rows with the
\* same last_seen come in any order)
Orderings(S) ==
    { f \in [1..Cardinality(S) -> S] : \A i, j \in 1..Cardinality(S) : f[i] = f[j] => i = j }

\* context.args of /bulkdm: one id or more, repeats allowed
IdLists == UNION { [1..n -> UserIds] : n \in 1..MaxRecipients }

\* /broadcast or /bulkdm by an admin or the owner, in reply to a message:
\* the checks up to the loop
FanoutStart(s, kind, by, ids) ==
    /\ tasks[s].pc \in {"idle", "done"}
    /\ Privileged(by)
    /\ \/ kind = "broadcast" /\ ids \in Orderings(DOMAIN users)
       \/ kind = "bulkdm" /\ ids \in IdLists
    /\ tasks' = [tasks EXCEPT ![s] =
            [IdleTask EXCEPT !.kind = kind, !.user = by, !.chat = "private", !.cmd = kind,
                             !.recipients = ids,
                             !.pc = IF Len(ids) = 0 THEN "report" ELSE "fan"]]
    /\ UNCHANGED <<tables, chat_member, cache, now, cbs, sanvars>>

\* (a loop that gives up at the first failed send)
Tally_stop_on_fail(t, ok) ==
    [t EXCEPT !.attempts = Append(@, [to |-> t.recipients[Len(t.attempts) + 1], ok |-> ok]),
              !.success = IF ok THEN @ + 1 ELSE @,
              !.fail = IF ok THEN @ ELSE @ + 1,
              !.pc = IF ~ok \/ Len(t.attempts) + 1 = Len(t.recipients)
                     THEN "report" ELSE "fan"]

\* one turn of the loop: if await copy_message_to_user(...): success += 1
\* else: fail += 1
Tally(t, ok) ==
    [t EXCEPT !.attempts = Append(@, [to |-> t.recipients[Len(t.attempts) + 1], ok |-> ok]),
              !.success = IF ok THEN @ + 1 ELSE @,
              !.fail = IF ok THEN @ ELSE @ + 1,
              !.pc = IF Len(t.attempts) + 1 = Len(t.recipients) THEN "report" ELSE "fan"]

\* copy_message_to_user returns True (ok) or, the send having raised, False
FanoutSend(s, ok) ==
    /\ tasks[s].pc = "fan"
    /\ tasks' = [tasks EXCEPT ![s] = Tally(tasks[s], ok)]
    /\ UNCHANGED <<tables, chat_member, cache, now, cbs, sanvars>>

\* reply_text("... completed. Success: {success} Failed: {fail}")
FanoutReport(s) ==
    LET t == tasks[s]
    IN  /\ t.pc = "report"
        /\ tasks' = [tasks EXCEPT ![s] =
                Finish([t EXCEPT !.report = [success |-> t.success, fail |-> t.fail]],
                       "completed")]
        /\ UNCHANGED <<tables, chat_member, cache, now, cbs, sanvars>>


(***************************************************************************)
(* callback_handler, the "copy:" branch                                    *)
(***************************************************************************)
IdleCb ==
    [ pc |-> "idle",
      token |-> 0,          \* uid
      data |-> NoData,      \* entry['data'] as handed to reply_text
      had |-> FALSE,        \* copy_cache.get(uid) found an entry
      age |-> 0,            \* time.time() - entry['time'] at the check
      out |-> "none",       \* what the user got: "data" or "expired"
      err |-> "none",       \* the exception that ended the call, if any
      later |-> FALSE,      \* the call began after a copy reply carried this token
      user |-> "",          \* verify_join: query.from_user.id
      idx |-> 0,            \* check_force_join: the channel being asked about
      missing |-> << >>,    \* check_force_join: missing (channel indexes)
      seen |-> << >>,       \* check_force_join: what each query returned, in order
      keyboard |-> << >>,   \* the controls under the edited message
      stable |-> TRUE ]     \* no membership change for the user since the call began

\* the user presses the Copy button that carries token uid
CopyPressed(c, uid) ==
    /\ cbs[c].pc \in {"idle", "done"}
    /\ uid \in 1..Len(stored)
    /\ cbs' = [cbs EXCEPT ![c] =
            [IdleCb EXCEPT !.pc = "answer", !.token = uid, !.later = deliveries[uid] > 0]]
    /\ UNCHANGED <<tables, chat_member, cache, now, tasks, sanvars>>

\* await query.answer() is through; entry = copy_cache.get(uid) and the
\* test of its age, up to the await of reply_text
CopyLookup(c) ==
    LET cb  == cbs[c]
        had == cb.token \in DOMAIN copy_cache
        cb1 == [cb EXCEPT !.had = had,
                          !.age = IF had THEN now - copy_cache[cb.token].time ELSE 0]
    IN  /\ cb.pc = "answer"
        /\ IF CacheHit(copy_cache, cb.token)
           THEN /\ cbs' = [cbs EXCEPT ![c] =
                        [cb1 EXCEPT !.pc = "reply", !.data = copy_cache[cb.token].data]]
                /\ UNCHANGED copy_cache
           ELSE /\ cbs' = [cbs EXCEPT ![c] = [cb1 EXCEPT !.pc = "expired"]]
                /\ copy_cache' = CacheRemove(copy_cache, cb.token)
        /\ UNCHANGED <<tables, chat_member, stored, deliveries, now, tasks, sanvars>>

\* reply_text with the payload is through (ok), then del copy_cache[uid];
\* or reply_text raised and the handler ends there
CopyReplied(c, ok) ==
    LET cb == cbs[c]
    IN  /\ cb.pc = "reply"
        /\ IF ok
           THEN /\ deliveries' = [deliveries EXCEPT ![cb.token] = @ + 1]
                /\ copy_cache' = CacheRemove(copy_cache, cb.token)
                /\ cbs' = [cbs EXCEPT ![c] =
                        [cb EXCEPT !.pc = "done", !.out = "data",
                                   !.err = IF cb.token \in DOMAIN copy_cache
                                           THEN "none" ELSE "KeyError"]]
           ELSE /\ cbs' = [cbs EXCEPT ![c] = [cb EXCEPT !.pc = "done", !.err = "send"]]
                /\ UNCHANGED <<deliveries, copy_cache>>
        /\ UNCHANGED <<tables, chat_member, stored, now, tasks, sanvars>>

\* reply_text("Copy data expired ...") is through
CopyExpired(c) ==
    LET cb == cbs[c]
    IN  /\ cb.pc = "expired"
        /\ cbs' = [cbs EXCEPT ![c] = [cb EXCEPT !.pc = "done", !.out = "expired"]]
        /\ UNCHANGED <<tables, chat_member, cache, now, tasks, sanvars>>

\* get_copy_button(data) of an inline delivery: store_copy_data(data)
get_copy_button(data) ==
    /\ Len(stored) < MaxStores
    /\ copy_cache' = store_copy_data(copy_cache, FreshToken, data)
    /\ stored' = Append(stored, data)
    /\ deliveries' = Append(deliveries, 0)
    /\ UNCHANGED <<tables, chat_member, now, tasks, cbs, sanvars>>

\* the clock readings of the model: an entry stored at 0 or 1 is aged
\* CACHE_EXPIRY - 1, CACHE_EXPIRY or CACHE_EXPIRY + 1 at the two late readings
Instants ==
    {0, 1, CACHE_EXPIRY, CACHE_EXPIRY + 1}

\* time passes
Tick(t) ==
    /\ t \in Instants
    /\ t > now
    /\ now' = t
    /\ UNCHANGED <<tables, chat_member, cache, tasks, cbs, sanvars>>

(***************************************************************************)
(* callback_handler, the "verify_join" branch                              *)
(***************************************************************************)
\* the user presses "I've joined"; await query.answer() is through
VerifyPressed(c, user) ==
    /\ cbs[c].pc \in {"idle", "done"}
    /\ cbs' = [cbs EXCEPT ![c] = [IdleCb EXCEPT !.pc = "vquery", !.user = user, !.idx = 1]]
    /\ UNCHANGED <<tables, chat_member, cache, now, tasks, sanvars>>

\* check_force_join(context.bot, query.from_user.id), one channel per step
VerifyQuery(c) ==
    LET cb   == cbs[c]
        st   == chat_member[cb.user][FORCE_JOIN_CHANNELS[cb.idx].id]
        miss == IF IsMissing(st) THEN Append(cb.missing, cb.idx) ELSE cb.missing
        cb1  == [cb EXCEPT !.missing = miss, !.seen = Append(@, st)]
    IN  /\ cb.pc = "vquery"
        /\ cbs' = [cbs EXCEPT ![c] =
                IF cb.idx < Len(FORCE_JOIN_CHANNELS) THEN [cb1 EXCEPT !.idx = @ + 1]
                ELSE [cb1 EXCEPT !.pc = "vedit"]]
        /\ UNCHANGED <<tables, chat_member, cache, now, tasks, sanvars>>

\* (a re-verification that always succeeds)
VerifyResult_always_ok(missing) == "verified"
\* if ok: the success message, else: the prompt again
VerifyResult(missing) == IF Len(missing) = 0 THEN "verified" ELSE "prompt"

\* await query.edit_message_text(...) is through
VerifyEdited(c) ==
    LET cb == cbs[c]
    IN  /\ cb.pc = "vedit"
        /\ cbs' = [cbs EXCEPT ![c] =
                [cb EXCEPT !.pc = "done", !.out = VerifyResult(cb.missing),
                           !.keyboard = IF VerifyResult(cb.missing) = "prompt"
                                        THEN get_force_join_keyboard(cb.missing)
                                        ELSE << >>]]
        /\ UNCHANGED <<tables, chat_member, cache, now, tasks, sanvars>>

(***************************************************************************)
(* Admin commands and the platform                                         *)
(***************************************************************************)
\* /ban <user_id> [reason] by an admin or the owner
Ban(by, user_id, reason) ==
    /\ Privileged(by)
    /\ bans' = ban_user(bans, user_id, reason, by)
    /\ tasks' = Touch(user_id)
    /\ UNCHANGED <<admins, users, lookups, bot_groups, chat_member, cache, now, cbs, sanvars>>

\* /unban <user_id>
Unban(by, user_id) ==
    /\ Privileged(by)
    /\ is_banned(user_id)
    /\ bans' = unban_user(bans, user_id)
    /\ tasks' = Touch(user_id)
    /\ UNCHANGED <<admins, users, lookups, bot_groups, chat_member, cache, now, cbs, sanvars>>

\* /addadmin <user_id> by the owner
AddAdmin(user_id) ==
    /\ ~is_admin(user_id)
    /\ admins' = admins \cup {user_id}
    /\ tasks' = Touch(user_id)
    /\ UNCHANGED <<bans, users, lookups, bot_groups, chat_member, cache, now, cbs, sanvars>>

\* /removeadmin <user_id> by the owner
RemoveAdmin(user_id) ==
    /\ is_admin(user_id)
    /\ admins' = admins \ {user_id}
    /\ tasks' = Touch(user_id)
    /\ UNCHANGED <<bans, users, lookups, bot_groups, chat_member, cache, now, cbs, sanvars>>

\* a user joins or leaves a required channel, is kicked from it, or the
\* platform starts failing the query for that user
SetStatus(user_id, channel, status) ==
    /\ chat_member[user_id][channel] # status
    /\ chat_member' = [chat_member EXCEPT ![user_id][channel] = status]
    /\ tasks' = Touch(user_id)
    /\ cbs' = [c \in DOMAIN cbs |->
                IF cbs[c].user = user_id THEN [cbs[c] EXCEPT !.stable = FALSE] ELSE cbs[c]]
    /\ UNCHANGED <<tables, cache, now, sanvars>>

(***************************************************************************)
(* The admin and owner commands as handlers: the wrapper's test, then the  *)
(* command's body                                                          *)
(***************************************************************************)
\* the commands wrapped in @owner_only and in @admin_only that read
\* context.args[0] as a number
OwnerCmds == {"addadmin", "removeadmin"}
AdminCmds == {"ban", "unban", "deleteuser", "userlookups", "dm", "bulkdm",
              "users", "recentusers", "inactiveusers", "dailystats"}
PrivilegedCmds == OwnerCmds \cup AdminCmds

\* how the body reads its argument: inside try/except (IndexError,
\* ValueError); after a length test and inside try/except ValueError; or
\* with a bare int() behind `if context.args`
ArgCaught  == {"ban", "unban", "deleteuser", "userlookups", "addadmin", "removeadmin"}
ArgChecked == {"dm", "bulkdm"}
ArgBare    == {"users", "recentusers", "inactiveusers", "dailystats"}

\* context.args[0]: absent, not a number, or a number
NoArg == ""
BadArg == "abc"
IsNumeric(arg) == arg \notin {NoArg, BadArg}

\* an admin or owner command arrives
AdminArrive(s, cmd, by, arg, reason) ==
    /\ tasks[s].pc \in {"idle", "done"}
    /\ cmd \in PrivilegedCmds
    /\ reason # "" => cmd = "ban" /\ IsNumeric(arg)
    /\ tasks' = [tasks EXCEPT ![s] =
            [IdleTask EXCEPT !.kind = "admin", !.user = by, !.chat = "private",
                             !.cmd = cmd, !.arg = arg, !.reason = reason, !.pc = "priv"]]
    /\ UNCHANGED <<tables, chat_member, cache, now, cbs, sanvars>>

\* (a wrapper that lets everybody in)
Allowed_anyone(cmd, user) == TRUE
\* owner_only: update.effective_user.id == OWNER_ID
\* admin_only: user.id == OWNER_ID or await is_admin(user.id)
Allowed(cmd, user) ==
    IF cmd \in OwnerCmds THEN user = OWNER_ID
    ELSE user = OWNER_ID \/ is_admin(user)

\* the wrapper's test, and for an actor who fails it the refusal
PrivCheck(s) ==
    LET t == tasks[s]
    IN  /\ t.pc = "priv"
        /\ tasks' = [tasks EXCEPT ![s] =
                IF Allowed(t.cmd, t.user)
                THEN [t EXCEPT !.pc = "run",
                               !.allowed = (t.user = OWNER_ID \/ t.user \in admins)]
                ELSE Finish(t, "refused")]
        /\ UNCHANGED <<tables, chat_member, cache, now, cbs, sanvars>>

\* what the body answers: "ok" when it did its work, "usage" / "invalid"
\* for its own hints, "error" when int() raised out of the handler
AdminReply(cmd, arg) ==
    IF IsNumeric(arg) THEN "ok"
    ELSE IF cmd \in ArgCaught THEN "usage"
    ELSE IF cmd \in ArgChecked THEN (IF arg = NoArg THEN "usage" ELSE "invalid")
    ELSE IF arg = NoArg THEN "ok" ELSE "error"

\* the body of the command, to its last reply
AdminRun(s) ==
    LET t   == tasks[s]
        r   == AdminReply(t.cmd, t.arg)
        act == r = "ok" /\ IsNumeric(t.arg)
        why == IF t.reason = "" THEN "No reason" ELSE t.reason
    IN  /\ t.pc = "run"
        /\ bans' = IF act /\ t.cmd = "ban" THEN ban_user(bans, t.arg, why, t.user)
                   ELSE IF act /\ t.cmd = "unban" THEN unban_user(bans, t.arg)
                   ELSE bans
        /\ admins' = IF act /\ t.cmd = "addadmin" THEN admins \cup {t.arg}
                     ELSE IF act /\ t.cmd = "removeadmin" THEN admins \ {t.arg}
                     ELSE admins
        /\ users' = IF act /\ t.cmd = "deleteuser" THEN delete_user_row(users, t.arg)
                    ELSE users
        /\ lookups' = IF act /\ t.cmd = "deleteuser" THEN delete_user_lookups(lookups, t.arg)
                      ELSE lookups
        /\ tasks' = [s2 \in DOMAIN tasks |->
                IF s2 = s THEN Finish([t EXCEPT !.prior = (t.arg \in DOMAIN bans)], r)
                ELSE IF tasks[s2].user = t.arg /\ <<bans', admins'>> # <<bans, admins>>
                     THEN [tasks[s2] EXCEPT !.stable = FALSE]
                     ELSE tasks[s2]]
        /\ UNCHANGED <<bot_groups, chat_member, cache, now, cbs, sanvars>>

(***************************************************************************)
(* The bot after post_init, with the given handler slots                   *)
(***************************************************************************)
SanIdle ==
    /\ san_text = << >>
    /\ san_extra = << >>
    /\ san_out1 = << >>
    /\ san_out2 = << >>
    /\ san_n = 0
    /\ shown = << >>

InitBot(slots, cbslots) ==
    /\ admins = INITIAL_ADMINS
    /\ bans = << >>
    /\ users = << >>
    /\ lookups = << >>
    /\ bot_groups = {}
    /\ chat_member = [u \in UserIds |-> [c \in ChannelIds |->
                          IF u \in RegularUsers THEN "member" ELSE "left"]]
    /\ copy_cache = << >>
    /\ stored = << >>
    /\ deliveries = << >>
    /\ now = 0
    /\ tasks = [s \in slots |-> IdleTask]
    /\ cbs = [c \in cbslots |-> IdleCb]

(***************************************************************************)
(* Spec: one handler at a time at the gate, while bans, the admin table    *)
(* and memberships change under it                                         *)
(***************************************************************************)
Init == InitBot({1}, {}) /\ SanIdle

GateOutcomes == { Ok200(Body(Dict([a |-> 1]), Ser(79, 3, 0, 0, 10))) }

\* the updates of the model: (handler, command name, query given)
Updates ==
    { <<"msg", "num", TRUE>>, <<"msg", "num", FALSE>>, <<"msg", "zzz", TRUE>>,
      <<"msg", "helpme", TRUE>>, <<"start", "start", FALSE>>, <<"help", "help", FALSE>> }

Next ==
    \/ \E s \in DOMAIN tasks, upd \in Updates, user \in UserIds, chat \in ChatTypes :
            Arrive(s, upd[1], user, chat, upd[2], upd[3])
    \/ \E s \in DOMAIN tasks : ScopeCheck(s)
    \/ \E s \in DOMAIN tasks : GateAdmin(s)
    \/ \E s \in DOMAIN tasks : BanCheck(s)
    \/ \E s \in DOMAIN tasks : MemberQuery(s)
    \/ \E s \in DOMAIN tasks : UpsertUser(s, TRUE)
    \/ \E s \in DOMAIN tasks : TrackGroup(s, TRUE)
    \/ \E s \in DOMAIN tasks, o \in GateOutcomes : ApiReturn(s, o)
    \/ \E s \in DOMAIN tasks : Deliver(s)
    \/ \E s \in DOMAIN tasks : SaveLookup(s, TRUE)
    \/ \E s \in DOMAIN tasks : Mirror(s, TRUE)
    \/ \E u \in RegularUsers : Ban(OWNER_ID, u, "No reason")
    \/ \E u \in RegularUsers : Unban(OWNER_ID, u)
    \/ \E u \in INITIAL_ADMINS \ {OWNER_ID} : AddAdmin(u)
    \/ \E u \in INITIAL_ADMINS \ {OWNER_ID} : RemoveAdmin(u)
    \/ \E u \in RegularUsers, c \in ChannelIds, st \in {"member", "left"} :
            SetStatus(u, c, st)

Spec == Init /\ [][Next]_vars



(***************************************************************************)
(* SpecCache: two copy callbacks at a time over the cache, while inline    *)
(* deliveries store payloads and time passes                               *)
(***************************************************************************)
InitCache == InitBot({}, {1, 2}) /\ SanIdle

CachePayloads == { Envelope(b.val) : b \in {Body(Dict([a |-> 1]), NoBody.ser),
                                              Body(List(<<1, 2, 3>>), NoBody.ser)} }

NextCache ==
    \/ \E data \in CachePayloads : get_copy_button(data)
    \/ \E c \in DOMAIN cbs, uid \in 1..MaxStores : CopyPressed(c, uid)
    \/ \E c \in DOMAIN cbs : CopyLookup(c)
    \/ \E c \in DOMAIN cbs, ok \in BOOLEAN : CopyReplied(c, ok)
    \/ \E c \in DOMAIN cbs : CopyExpired(c)
    \/ \E t \in Instants : Tick(t)

SpecCache == InitCache /\ [][NextCache]_vars


(***************************************************************************)
(* Properties of the copy cache                                            *)
(***************************************************************************)
\* the callback has evaluated the entry check
Checked(cb) == cb.pc \in {"reply", "expired", "done"}

\* C5: a consume made before the TTL elapses returns exactly the payload
\* that store recorded under the token and leaves no entry behind, and a
\* consume that begins after a consume has returned the payload reports
\* expired and never the payload.
C5_SingleUse ==
    \A c \in DOMAIN cbs :
        LET cb == cbs[c]
        IN  /\ (cb.pc = "done" /\ cb.had /\ cb.age < CACHE_EXPIRY /\ cb.err = "none")
                => cb.out = "data"
            /\ cb.out = "data"
                => /\ cb.data = stored[cb.token]
                   /\ cb.token \notin DOMAIN copy_cache
            /\ cb.later
                => /\ cb.pc # "reply"
                   /\ cb.out # "data"
                   /\ cb.pc = "done" => cb.out = "expired"

\* a consume returned the payload and a consume of the same token that
\* began afterwards was told the data expired
C5_Witness ==
    \E c1, c2 \in DOMAIN cbs :
        /\ cbs[c1].out = "data" /\ cbs[c1].data = stored[cbs[c1].token]
        /\ cbs[c2].token = cbs[c1].token
        /\ cbs[c2].later /\ cbs[c2].pc = "done" /\ cbs[c2].out = "expired"

\* C6: a consume that finds the entry at an age of CACHE_EXPIRY or more
\* reports expired, never returns the payload and removes the entry; a
\* consume that finds it at an age below CACHE_EXPIRY returns the payload
\* (unless sending the reply itself fails).
C6_TtlBoundary ==
    \A c \in DOMAIN cbs :
        LET cb == cbs[c]
        IN  (Checked(cb) /\ cb.had) =>
                IF cb.age >= CACHE_EXPIRY
                THEN /\ cb.pc # "reply"
                     /\ cb.out # "data"
                     /\ cb.pc = "done" => cb.out = "expired"
                     /\ cb.token \notin DOMAIN copy_cache
                ELSE \/ cb.pc = "reply"
                     \/ cb.pc = "done" /\ cb.out = "data"
                     \/ cb.pc = "done" /\ cb.err = "send"

\* one first consume at age exactly CACHE_EXPIRY was told expired, another
\* at age CACHE_EXPIRY - 1 got the payload
C6_Witness ==
    \E c1, c2 \in DOMAIN cbs :
        /\ cbs[c1].pc = "done" /\ cbs[c1].had /\ cbs[c1].age = CACHE_EXPIRY
        /\ ~cbs[c1].later /\ cbs[c1].out = "expired"
        /\ cbs[c2].pc = "done" /\ cbs[c2].had /\ cbs[c2].age = CACHE_EXPIRY - 1
        /\ cbs[c2].out = "data"

\* a copy callback for token uid is at its entry check or at its removal
Consuming(uid) ==
    \E c \in DOMAIN cbs :
        /\ cbs[c].token = uid
        /\ cbs[c].pc \in {"answer", "reply"}
        /\ cbs'[c].pc # cbs[c].pc

\* C32: an entry of the copy cache stays as it was stored, payload and
\* time, through every step that is not a consume of its own token: a
\* store adds its new entry and touches no other, a consume of another
\* token and the passing of time leave it alone, so an entry that has
\* expired and is never consumed stays in the cache
C32_LazyEviction ==
    [][\A uid \in DOMAIN copy_cache :
          \/ uid \in DOMAIN copy_cache' /\ copy_cache'[uid] = copy_cache[uid]
          \/ Consuming(uid)]_vars

\* an entry is past its TTL and still in the cache, after another entry
\* was stored and a callback for another token has ended
C32_Witness ==
    \E uid \in DOMAIN copy_cache :
        /\ (now - copy_cache[uid].time) >= CACHE_EXPIRY
        /\ Len(stored) > uid
        /\ \E c \in DOMAIN cbs :
               /\ cbs[c].pc = "done" /\ cbs[c].token # uid
               /\ cbs[c].token \notin DOMAIN copy_cache

\* C7: however two copy callbacks for one token interleave at their awaits,
\* the payload of a token is delivered at most once and no callback fails
\* with an error on removing the entry.
C7_SingleUseInterleaved ==
    /\ \A uid \in 1..Len(deliveries) : deliveries[uid] <= 1
    /\ \A c \in DOMAIN cbs : cbs[c].err # "KeyError"


(***************************************************************************)
(* SpecPipeline: lookups in a group chat, the upstream call ending in      *)
(* every way it can and every store or send after it failing or not        *)
(***************************************************************************)
InitPipeline == InitBot({1}, {}) /\ SanIdle

PipelineUsers == {OWNER_ID} \cup RegularUsers

NextPipeline ==
    \/ \E s \in DOMAIN tasks, user \in PipelineUsers :
            Arrive(s, "msg", user, "group", "num", TRUE)
    \/ \E s \in DOMAIN tasks : ScopeCheck(s)
    \/ \E s \in DOMAIN tasks : GateAdmin(s)
    \/ \E s \in DOMAIN tasks : BanCheck(s)
    \/ \E s \in DOMAIN tasks : MemberQuery(s)
    \/ \E s \in DOMAIN tasks, ok \in BOOLEAN : UpsertUser(s, ok)
    \/ \E s \in DOMAIN tasks, ok \in BOOLEAN : TrackGroup(s, ok)
    \/ \E s \in DOMAIN tasks, o \in Outcomes : ApiReturn(s, o)
    \/ \E s \in DOMAIN tasks : Deliver(s)
    \/ \E s \in DOMAIN tasks : DeliverRaises(s)
    \/ \E s \in DOMAIN tasks, ok \in BOOLEAN : SaveLookup(s, ok)
    \/ \E s \in DOMAIN tasks, ok \in BOOLEAN : Mirror(s, ok)

SpecPipeline == InitPipeline /\ [][NextPipeline]_vars


(***************************************************************************)
(* SpecUnknown: two handlers at a time in a group chat, each with a        *)
(* command of the catalog or an unknown one                                *)
(***************************************************************************)
InitUnknown == InitBot({1, 2}, {}) /\ SanIdle

NextUnknown ==
    \/ \E s \in DOMAIN tasks, user \in PipelineUsers, cmd \in {"num", "zzz"} :
            Arrive(s, "msg", user, "group", cmd, TRUE)
    \/ \E s \in DOMAIN tasks : ScopeCheck(s)
    \/ \E s \in DOMAIN tasks : GateAdmin(s)
    \/ \E s \in DOMAIN tasks : BanCheck(s)
    \/ \E s \in DOMAIN tasks : MemberQuery(s)
    \/ \E s \in DOMAIN tasks : UpsertUser(s, TRUE)
    \/ \E s \in DOMAIN tasks : TrackGroup(s, TRUE)
    \/ \E s \in DOMAIN tasks, o \in GateOutcomes : ApiReturn(s, o)
    \/ \E s \in DOMAIN tasks : Deliver(s)
    \/ \E s \in DOMAIN tasks : SaveLookup(s, TRUE)
    \/ \E s \in DOMAIN tasks : Mirror(s, TRUE)

SpecUnknown == InitUnknown /\ [][NextUnknown]_vars

(***************************************************************************)
(* SpecFanout: users register through /start, an admin or the owner        *)
(* broadcasts to them or sends a bulk DM to a list of ids                  *)
(***************************************************************************)
InitFanout == InitBot({1}, {}) /\ SanIdle

NextFanout ==
    \/ \E s \in DOMAIN tasks, user \in UserIds :
            Arrive(s, "start", user, "private", "start", FALSE)
    \/ \E s \in DOMAIN tasks : UpsertUser(s, TRUE)
    \/ \E s \in DOMAIN tasks : GateAdmin(s)
    \/ \E s \in DOMAIN tasks : BanCheck(s)
    \/ \E s \in DOMAIN tasks : MemberQuery(s)
    \/ \E s \in DOMAIN tasks, by \in INITIAL_ADMINS, ids \in Orderings(DOMAIN users) :
            FanoutStart(s, "broadcast", by, ids)
    \/ \E s \in DOMAIN tasks, by \in INITIAL_ADMINS, ids \in IdLists :
            FanoutStart(s, "bulkdm", by, ids)
    \/ \E s \in DOMAIN tasks, ok \in BOOLEAN : FanoutSend(s, ok)
    \/ \E s \in DOMAIN tasks : FanoutReport(s)

SpecFanout == InitFanout /\ [][NextFanout]_vars

\* the failed ones among the sends made
Failed(t) == { i \in 1..Len(t.attempts) : ~t.attempts[i].ok }

\* C17: a broadcast or bulk DM over N recipients tries each of them exactly
\* once and in order, whatever the outcome of the sends before; with M
\* failed sends it counts and reports success = N - M and fail = M.
C17_FanoutTally ==
    \A s \in DOMAIN tasks :
        LET t == tasks[s]
            N == Len(t.recipients)
            M == Cardinality(Failed(t))
        IN  t.kind \in {"broadcast", "bulkdm"} =>
                /\ Len(t.attempts) <= N
                /\ \A i \in 1..Len(t.attempts) : t.attempts[i].to = t.recipients[i]
                /\ t.fail = M /\ t.success = Len(t.attempts) - M
                /\ t.pc \in {"report", "done"} => Len(t.attempts) = N
                /\ t.pc = "done" => t.report = [success |-> N - M, fail |-> M]

\* a fan-out over three recipients ended with the first send failed and
\* the later ones made
C17_Witness ==
    \E s \in DOMAIN tasks :
        LET t == tasks[s]
        IN  /\ t.kind \in {"broadcast", "bulkdm"} /\ t.pc = "done"
            /\ Len(t.recipients) = 3 /\ Len(t.attempts) = 3
            /\ ~t.attempts[1].ok /\ t.attempts[2].ok
            /\ t.report = [success |-> 2, fail |-> 1]

(***************************************************************************)
(* SpecMembership: a user's lookups while the user's memberships change in *)
(* every way and the user is banned or not                                 *)
(***************************************************************************)
InitMembership == InitBot({1}, {}) /\ SanIdle

NextMembership ==
    \/ \E s \in DOMAIN tasks, u \in RegularUsers :
            Arrive(s, "msg", u, "group", "num", TRUE)
    \/ \E s \in DOMAIN tasks : ScopeCheck(s)
    \/ \E s \in DOMAIN tasks : GateAdmin(s)
    \/ \E s \in DOMAIN tasks : BanCheck(s)
    \/ \E s \in DOMAIN tasks : MemberQuery(s)
    \/ \E s \in DOMAIN tasks : UpsertUser(s, TRUE)
    \/ \E s \in DOMAIN tasks : TrackGroup(s, TRUE)
    \/ \E s \in DOMAIN tasks, o \in GateOutcomes : ApiReturn(s, o)
    \/ \E s \in DOMAIN tasks : Deliver(s)
    \/ \E s \in DOMAIN tasks : SaveLookup(s, TRUE)
    \/ \E s \in DOMAIN tasks : Mirror(s, TRUE)
    \/ \E u \in RegularUsers : Ban(OWNER_ID, u, "No reason")
    \/ \E u \in RegularUsers : Unban(OWNER_ID, u)
    \/ \E u \in RegularUsers, ch \in ChannelIds, st \in Statuses : SetStatus(u, ch, st)

SpecMembership == InitMembership /\ [][NextMembership]_vars

(***************************************************************************)
(* SpecVerify: two presses of "I've joined" in flight while the user's     *)
(* memberships change and the user is banned or not                        *)
(***************************************************************************)
InitVerify == InitBot({}, {1, 2}) /\ SanIdle

NextVerify ==
    \/ \E c \in DOMAIN cbs, u \in RegularUsers : VerifyPressed(c, u)
    \/ \E c \in DOMAIN cbs : VerifyQuery(c)
    \/ \E c \in DOMAIN cbs : VerifyEdited(c)
    \/ \E u \in RegularUsers : Ban(OWNER_ID, u, "No reason")
    \/ \E u \in RegularUsers : Unban(OWNER_ID, u)
    \/ \E u \in RegularUsers, ch \in ChannelIds, st \in Statuses : SetStatus(u, ch, st)

SpecVerify == InitVerify /\ [][NextVerify]_vars

(***************************************************************************)
(* SpecPrivileged: the owner and an admin use the bot while they are       *)
(* banned and unbanned, dropped from and added to the admin table, and     *)
(* outside the required channels                                           *)
(***************************************************************************)
InitPrivileged == InitBot({1}, {}) /\ SanIdle

NextPrivileged ==
    \/ \E s \in DOMAIN tasks, user \in INITIAL_ADMINS, chat \in ChatTypes :
            \/ Arrive(s, "msg", user, chat, "num", TRUE)
            \/ Arrive(s, "start", user, chat, "start", FALSE)
    \/ \E s \in DOMAIN tasks : ScopeCheck(s)
    \/ \E s \in DOMAIN tasks : GateAdmin(s)
    \/ \E s \in DOMAIN tasks : BanCheck(s)
    \/ \E s \in DOMAIN tasks : MemberQuery(s)
    \/ \E s \in DOMAIN tasks : UpsertUser(s, TRUE)
    \/ \E s \in DOMAIN tasks : TrackGroup(s, TRUE)
    \/ \E s \in DOMAIN tasks, o \in GateOutcomes : ApiReturn(s, o)
    \/ \E s \in DOMAIN tasks : Deliver(s)
    \/ \E s \in DOMAIN tasks : SaveLookup(s, TRUE)
    \/ \E s \in DOMAIN tasks : Mirror(s, TRUE)
    \/ \E u \in INITIAL_ADMINS : Ban(OWNER_ID, u, "No reason")
    \/ \E u \in INITIAL_ADMINS : Unban(OWNER_ID, u)
    \/ \E u \in INITIAL_ADMINS : AddAdmin(u)
    \/ \E u \in INITIAL_ADMINS : RemoveAdmin(u)
    \/ \E u \in INITIAL_ADMINS, st \in {"member", "left"} :
            SetStatus(u, FORCE_JOIN_CHANNELS[1].id, st)

SpecPrivileged == InitPrivileged /\ [][NextPrivileged]_vars

(***************************************************************************)
(* SpecAdmin: the owner, an admin and a plain user send the admin and      *)
(* owner commands with and without a usable argument, while the owner      *)
(* drops the admin from the admin table and puts the admin back            *)
(***************************************************************************)
InitAdmin == InitBot({1}, {}) /\ SanIdle

AdminTargets == {NoArg, BadArg} \cup INITIAL_ADMINS

NextAdmin ==
    \/ \E s \in DOMAIN tasks, cmd \in PrivilegedCmds, by \in UserIds, arg \in AdminTargets :
            AdminArrive(s, cmd, by, arg, "")
    \/ \E s \in DOMAIN tasks : PrivCheck(s)
    \/ \E s \in DOMAIN tasks : AdminRun(s)
    \/ \E u \in INITIAL_ADMINS \ {OWNER_ID} : AddAdmin(u)
    \/ \E u \in INITIAL_ADMINS \ {OWNER_ID} : RemoveAdmin(u)

SpecAdmin == InitAdmin /\ [][NextAdmin]_vars

(***************************************************************************)
(* SpecCompletion: one user's lookups under every upstream outcome, with   *)
(* failing sends and failing store calls; the event loop resumes every     *)
(* handler whose await has ended                                           *)
(***************************************************************************)
CompletionSlots == {1}

InitCompletion == InitBot(CompletionSlots, {}) /\ SanIdle

\* a step of the handler in slot s
HandlerStep(s) ==
    \/ ScopeCheck(s)
    \/ GateAdmin(s)
    \/ BanCheck(s)
    \/ MemberQuery(s)
    \/ \E ok \in BOOLEAN : UpsertUser(s, ok)
    \/ \E ok \in BOOLEAN : TrackGroup(s, ok)
    \/ \E o \in Outcomes : ApiReturn(s, o)
    \/ Deliver(s)
    \/ DeliverRaises(s)
    \/ \E ok \in BOOLEAN : SaveLookup(s, ok)
    \/ \E ok \in BOOLEAN : Mirror(s, ok)

NextCompletion ==
    \/ \E s \in CompletionSlots, user \in RegularUsers :
            Arrive(s, "msg", user, "group", "num", TRUE)
    \/ \E s \in CompletionSlots : HandlerStep(s)

SpecCompletion ==
    /\ InitCompletion /\ [][NextCompletion]_vars
    /\ \A s \in CompletionSlots : WF_vars(HandlerStep(s))

(***************************************************************************)
(* SpecCounter: one user's /start and lookups, with upserts and saves that *)
(* fail, while the owner deletes the user's row                            *)
(***************************************************************************)
MaxCounted == 2

InitCounter == InitBot({1, 2}, {}) /\ SanIdle

NextCounter ==
    \/ \E user \in RegularUsers :
            \/ ArriveUpTo(1, "msg", user, "group", "num", TRUE, MaxCounted)
            \/ ArriveUpTo(1, "start", user, "group", "start", FALSE, MaxCounted)
    \/ ScopeCheck(1)
    \/ GateAdmin(1)
    \/ BanCheck(1)
    \/ MemberQuery(1)
    \/ \E ok \in BOOLEAN : UpsertUser(1, ok)
    \/ TrackGroup(1, TRUE)
    \/ \E o \in GateOutcomes : ApiReturn(1, o)
    \/ Deliver(1)
    \/ \E failat \in SaveFailures : SaveLookupAt(1, failat)
    \/ Mirror(1, TRUE)
    \/ \E user \in RegularUsers : AdminArrive(2, "deleteuser", OWNER_ID, user, "")
    \/ PrivCheck(2)
    \/ AdminRun(2)

SpecCounter == InitCounter /\ [][NextCounter]_vars

(***************************************************************************)
(* SpecBans: the owner bans and unbans a plain user and the admin, the     *)
(* admin bans the plain user for a reason, while both send /start          *)
(***************************************************************************)
BanTargets == UserIds \ {OWNER_ID}

InitBans == InitBot({1, 2, 3}, {}) /\ SanIdle

NextBans ==
    \/ \E user \in BanTargets : Arrive(1, "start", user, "private", "start", FALSE)
    \/ UpsertUser(1, TRUE)
    \/ GateAdmin(1)
    \/ BanCheck(1)
    \/ MemberQuery(1)
    \/ \E cmd \in {"ban", "unban"}, arg \in BanTargets :
            AdminArrive(2, cmd, OWNER_ID, arg, "")
    \/ \E arg \in RegularUsers : AdminArrive(3, "ban", "5987905091", arg, "spam")
    \/ \E s \in {2, 3} : PrivCheck(s)
    \/ \E s \in {2, 3} : AdminRun(s)

SpecBans == InitBans /\ [][NextBans]_vars

(***************************************************************************)
(* SpecRecords: one user's lookups, with saves that fail, while the owner  *)
(* runs the commands that remove rows: deleteuser, ban, unban, removeadmin *)
(***************************************************************************)
RemovingCmds == {"deleteuser", "ban", "unban", "removeadmin"}

InitRecords == InitBot({1, 2}, {}) /\ SanIdle

NextRecords ==
    \/ \E user \in RegularUsers :
            ArriveUpTo(1, "msg", user, "group", "num", TRUE, MaxCounted)
    \/ ScopeCheck(1)
    \/ GateAdmin(1)
    \/ BanCheck(1)
    \/ MemberQuery(1)
    \/ UpsertUser(1, TRUE)
    \/ TrackGroup(1, TRUE)
    \/ \E o \in GateOutcomes : ApiReturn(1, o)
    \/ Deliver(1)
    \/ \E failat \in SaveFailures : SaveLookupAt(1, failat)
    \/ Mirror(1, TRUE)
    \/ \E cmd \in RemovingCmds, arg \in BanTargets :
            AdminArrive(2, cmd, OWNER_ID, arg, "")
    \/ PrivCheck(2)
    \/ AdminRun(2)

SpecRecords == InitRecords /\ [][NextRecords]_vars

(***************************************************************************)
(* SpecUpsert: /start and lookups of a plain user and of the owner, with   *)
(* upserts that fail, while time passes                                    *)
(***************************************************************************)
InitUpsert == InitBot({1}, {}) /\ SanIdle

NextUpsert ==
    \/ \E user \in PipelineUsers :
            \/ ArriveUpTo(1, "msg", user, "group", "num", TRUE, MaxCounted)
            \/ ArriveUpTo(1, "start", user, "private", "start", FALSE, MaxCounted)
    \/ ScopeCheck(1)
    \/ GateAdmin(1)
    \/ BanCheck(1)
    \/ MemberQuery(1)
    \/ \E ok \in BOOLEAN : UpsertUser(1, ok)
    \/ TrackGroup(1, TRUE)
    \/ \E o \in GateOutcomes : ApiReturn(1, o)
    \/ Deliver(1)
    \/ SaveLookup(1, TRUE)
    \/ Mirror(1, TRUE)
    \/ \E t \in Instants : Tick(t)

SpecUpsert == InitUpsert /\ [][NextUpsert]_vars

(***************************************************************************)
(* SpecConcurrent: up to three lookups of one user, all begun before the   *)
(* first of them is saved, interleaved at their awaits; no step fails      *)
(***************************************************************************)
ConcurrentSlots == {1, 2, 3}

InitConcurrent == InitBot(ConcurrentSlots, {}) /\ SanIdle

\* a lookup begins on a free slot while no lookup has been saved yet
ArriveTogether(s, user) ==
    /\ tasks[s].pc = "idle"
    /\ lookups = << >>
    /\ ArriveUpTo(s, "msg", user, "group", "num", TRUE, MaxCounted)

NextConcurrent ==
    \/ \E s \in ConcurrentSlots, user \in RegularUsers : ArriveTogether(s, user)
    \/ \E s \in ConcurrentSlots : ScopeCheck(s)
    \/ \E s \in ConcurrentSlots : GateAdmin(s)
    \/ \E s \in ConcurrentSlots : BanCheck(s)
    \/ \E s \in ConcurrentSlots : MemberQuery(s)
    \/ \E s \in ConcurrentSlots : UpsertUser(s, TRUE)
    \/ \E s \in ConcurrentSlots : TrackGroup(s, TRUE)
    \/ \E s \in ConcurrentSlots, o \in GateOutcomes : ApiReturn(s, o)
    \/ \E s \in ConcurrentSlots : Deliver(s)
    \/ \E s \in ConcurrentSlots : SaveLookup(s, TRUE)
    \/ \E s \in ConcurrentSlots : Mirror(s, TRUE)

SpecConcurrent == InitConcurrent /\ [][NextConcurrent]_vars

(***************************************************************************)
(* Properties of the upstream call and of the delivery                     *)
(***************************************************************************)
\* call_api has returned in this call
Returned(t) == t.outcome.stage # "none"

\* C8: call_api returns the parsed body on HTTP 200 with a well-formed
\* body, "HTTP <status>" on another status, "Invalid JSON response" when
\* the body does not parse, "Request timeout" whenever the timeout fires,
\* be it before the response or while the body is read, and the message of
\* any other exception.
C8_InvokerResults ==
    \A s \in DOMAIN tasks :
        LET t == tasks[s]
            o == t.outcome
        IN  Returned(t) =>
                t.result =
                    IF o.stage = "timeout" \/ o.read = "timeout"
                    THEN Dict([error |-> "Request timeout"])
                    ELSE IF o.stage = "exception" THEN Dict([error |-> o.msg])
                    ELSE IF o.status # 200 THEN Dict([error |-> HttpError(o.status)])
                    ELSE IF o.read = "bad_json" THEN Dict([error |-> "Invalid JSON response"])
                    ELSE o.body.val

\* C9 as stated: a rendered length of SizeThreshold - 1 or less goes inline,
\* one of SizeThreshold or more goes as an attachment.
C9_RoutingBySize ==
    \A s \in DOMAIN tasks :
        LET t == tasks[s]
        IN  Returned(t) =>
                /\ t.cmpLen <= SizeThreshold - 1 => t.route = "inline"
                /\ t.cmpLen >= SizeThreshold => t.route = "file"

\* C9: a rendered length (serialized envelope plus footer) of SizeThreshold
\* or less is delivered inline, one above SizeThreshold as an attachment,
\* and the delivery made is the one routed.
C9_RouteOverThreshold ==
    \A s \in DOMAIN tasks :
        LET t == tasks[s]
        IN  Returned(t) =>
                /\ t.cmpLen <= SizeThreshold => t.route = "inline"
                /\ t.cmpLen > SizeThreshold => t.route = "file"
                /\ t.reply \in {"inline", "file"} => t.reply = t.route

\* a rendered text of exactly SizeThreshold was delivered inline
C9_Witness ==
    \E s \in DOMAIN tasks :
        /\ tasks[s].cmpLen = SizeThreshold
        /\ tasks[s].reply = "inline"

\* C10: the inline text sent has the length that was compared with the
\* threshold, and no inline text sent is longer than SizeThreshold.
C10_InlineWithinThreshold ==
    \A s \in DOMAIN tasks :
        LET t == tasks[s]
        IN  t.reply = "inline" =>
                /\ t.sentLen = t.cmpLen
                /\ t.sentLen <= SizeThreshold


\* C11: for an upstream result that is a list or a scalar, the envelope is
\* exactly {result: value, developer: D, powered_by: P}, the value unchanged.
C11_WrapsNonMapping ==
    \A s \in DOMAIN tasks :
        LET t == tasks[s]
        IN  (Returned(t) /\ t.result.t \in {"list", "scalar"}) =>
                t.data = [t |-> "dict",
                          v |-> [result |-> t.result,
                                 developer |-> BRANDING.developer,
                                 powered_by |-> BRANDING.powered_by]]

\* the list [1, 2, 3] came back and its envelope was delivered
C11_Witness ==
    \E s \in DOMAIN tasks :
        /\ tasks[s].result = [t |-> "list", v |-> <<1, 2, 3>>]
        /\ tasks[s].reply = "inline"

\* C12 as stated: for an upstream mapping the envelope has every original
\* key with its original value, developer = D, powered_by = P and no other
\* key, also when the mapping already carries developer or powered_by.
C12_MappingKept ==
    \A s \in DOMAIN tasks :
        LET t == tasks[s]
        IN  (Returned(t) /\ t.result.t = "dict") =>
                /\ DOMAIN t.data.v = DOMAIN t.result.v \cup {"developer", "powered_by"}
                /\ t.data.v.developer = BRANDING.developer
                /\ t.data.v.powered_by = BRANDING.powered_by
                /\ \A k \in DOMAIN t.result.v : t.data.v[k] = t.result.v[k]

\* C12: for an upstream mapping the envelope has the keys of the mapping and
\* the two branding keys and no other; developer = D and powered_by = P,
\* replacing any upstream value under these keys; every other key keeps
\* its upstream value.  Error payloads are mappings like any other.
C12_MappingBranded ==
    \A s \in DOMAIN tasks :
        LET t == tasks[s]
        IN  (Returned(t) /\ t.result.t = "dict") =>
                /\ DOMAIN t.data.v = DOMAIN t.result.v \cup {"developer", "powered_by"}
                /\ t.data.v.developer = BRANDING.developer
                /\ t.data.v.powered_by = BRANDING.powered_by
                /\ \A k \in DOMAIN t.result.v \ {"developer", "powered_by"} :
                        t.data.v[k] = t.result.v[k]

\* a mapping that carries its own developer key came back and was delivered
C12_Witness ==
    \E s \in DOMAIN tasks :
        /\ tasks[s].result.t = "dict"
        /\ "developer" \in DOMAIN tasks[s].result.v
        /\ tasks[s].reply = "inline"


\* a lookup (command and query) whose command is not in the catalog
UnknownLookup(t) == t.kind = "msg" /\ t.hasq /\ t.cmd \notin DOMAIN COMMANDS

\* what a call for an unknown command has done so far
UnknownQuiet ==
    /\ \A s \in DOMAIN tasks :
            LET t == tasks[s]
            IN  UnknownLookup(t) =>
                    /\ ~t.called /\ ~t.saved /\ ~t.mirrored
                    /\ t.token = 0 /\ t.data = NoData /\ t.reply \notin {"inline", "file"}
                    /\ t.pc = "done" => t.reply = "notfound"
    /\ \A i \in 1..Len(lookups) : lookups[i].command \in DOMAIN COMMANDS

\* a step of a call for an unknown command adds no Lookup Record, no cache
\* entry, and changes no lookup counter
UnknownStep ==
    \A s \in DOMAIN tasks :
        (UnknownLookup(tasks'[s]) /\ tasks'[s] # tasks[s]) =>
            /\ lookups' = lookups
            /\ copy_cache' = copy_cache /\ stored' = stored
            /\ \A u \in DOMAIN users : users'[u].lookups = users[u].lookups
            /\ \A u \in DOMAIN users' \ DOMAIN users : users'[u].lookups = 0

\* C13: a lookup whose command is not in the catalog ends with the
\* not-found message and does nothing else: no upstream call, no Lookup
\* Record, no counter increment, no cache entry, no audit mirror; so for
\* each of two such lookups running interleaved, also next to a lookup of
\* a catalog command.
C13_UnknownNotFound == []UnknownQuiet /\ [][UnknownStep]_vars

\* one unknown-command lookup got the not-found message while another one
\* is between its awaits
C13_Witness ==
    \E s1, s2 \in DOMAIN tasks :
        /\ s1 # s2
        /\ UnknownLookup(tasks[s1]) /\ UnknownLookup(tasks[s2])
        /\ tasks[s1].pc = "done" /\ tasks[s1].reply = "notfound"
        /\ tasks[s2].pc = "group"


\* reply_document or reply_text has returned in this call
Delivered(t) == t.reply \in {"inline", "file"}

\* the step is the one in which call s comes back from save_lookup
SaveStep(s) == tasks[s].pc = "save" /\ tasks'[s].pc # "save"

\* a delivered lookup goes on to save_lookup, on either path and for either
\* kind of payload; a failed save_lookup changes nothing; no other step
\* touches the records or a counter
RecordSteps ==
    /\ \A s \in DOMAIN tasks :
            /\ (tasks[s].pc = "deliver" /\ Delivered(tasks'[s])) => tasks'[s].pc = "save"
            /\ (SaveStep(s) /\ ~tasks'[s].saved) => (lookups' = lookups /\ users' = users)
            /\ (SaveStep(s) /\ tasks'[s].saved) =>
                    lookups' = Append(lookups,
                        LookupRow(tasks[s].user, tasks[s].cmd, RawQuery, tasks[s].data))
    /\ (\A s \in DOMAIN tasks : ~SaveStep(s)) =>
            /\ lookups' = lookups
            /\ \A u \in DOMAIN users : users'[u].lookups = users[u].lookups

\* C14 as stated: every delivered lookup of a known command, unless
\* save_lookup itself fails, writes exactly one Lookup Record holding the
\* unsanitized envelope and raises the acting user's counter by exactly one.
C14_RecordAndCounter ==
    [][ /\ RecordSteps
        /\ \A s \in DOMAIN tasks :
               (SaveStep(s) /\ tasks'[s].saved) =>
                   LET u == tasks[s].user
                   IN  /\ u \in DOMAIN users'
                       /\ users'[u].lookups =
                              (IF u \in DOMAIN users THEN users[u].lookups ELSE 0) + 1 ]_vars

\* C14: every delivered lookup of a known command, unless save_lookup
\* itself fails, writes exactly one Lookup Record holding the unsanitized
\* envelope; the acting user's counter goes up by exactly one when the
\* users table has a row for the actor, and no counter changes when it has
\* none.
C14_RecordWritten ==
    [][ /\ RecordSteps
        /\ \A s \in DOMAIN tasks :
               (SaveStep(s) /\ tasks'[s].saved) =>
                   LET u == tasks[s].user
                   IN  IF u \in DOMAIN users
                       THEN users' = [users EXCEPT ![u].lookups = @ + 1]
                       ELSE users' = users ]_vars

\* an upstream timeout was delivered inline as an error payload, recorded
\* and counted
C14_Witness ==
    \E s \in DOMAIN tasks :
        LET t == tasks[s]
        IN  /\ t.outcome.stage = "timeout" /\ t.reply = "inline" /\ t.saved
            /\ Len(lookups) = 1 /\ lookups[1].response = t.data
            /\ t.user \in DOMAIN users /\ users[t.user].lookups = 1

(***************************************************************************)
(* Properties of the gate                                                  *)
(***************************************************************************)
\* a lookup command, /start or /help
GatedCommand(t) ==
    t.kind \in {"start", "help"} \/ (t.kind = "msg" /\ t.cmd \in DOMAIN COMMANDS)

\* the user has a Ban record and is neither the owner nor an admin, and was
\* so since the call began
BannedActor(t) ==
    /\ t.pc # "idle"
    /\ t.stable
    /\ t.user \in DOMAIN bans
    /\ t.user # OWNER_ID
    /\ t.user \notin admins

\* C1 as claimed: a banned identifier (not owner, not admin) that issues a
\* gated command, in any chat, gets the ban-denial message, and the call
\* writes no Lookup Record.
C1_BannedGetsBanDenial ==
    \A s \in DOMAIN tasks :
        LET t == tasks[s]
        IN  (GatedCommand(t) /\ BannedActor(t)) =>
                /\ ~t.saved
                /\ t.pc = "done" => t.reply = "banned"

\* C1 amended: the same, but a lookup command in a private chat is answered
\* with the redirect message (the scope check comes first); the ban-denial
\* message answers lookup commands in a group and /start, /help in any chat.
C1_BannedDenied ==
    \A s \in DOMAIN tasks :
        LET t == tasks[s]
        IN  (GatedCommand(t) /\ BannedActor(t)) =>
                /\ ~t.saved
                /\ t.pc = "done" =>
                      t.reply = IF t.kind = "msg" /\ t.chat = "private"
                                THEN "redirect" ELSE "banned"

C1_Witness ==
    \E s \in DOMAIN tasks :
        LET t == tasks[s]
        IN  /\ GatedCommand(t) /\ BannedActor(t)
            /\ t.kind = "msg" /\ t.chat = "group"
            /\ t.pc = "done" /\ t.reply = "banned"

IsPrefix(a, b) == Len(a) <= Len(b) /\ \A i \in 1..Len(a) : a[i] = b[i]

Denials == {"redirect", "banned", "join"}

\* the answer of the gate when its checks are made in the order scope, ban,
\* membership against the present tables: the first check that fails, or
\* "pass"
FirstFailing(t) ==
    LET priv == t.user = OWNER_ID \/ t.user \in admins
    IN  IF t.chat = "private" /\ ~priv THEN "redirect"
        ELSE IF priv THEN "pass"
        ELSE IF t.user \in DOMAIN bans THEN "banned"
        ELSE IF \E c \in ChannelIds : chat_member[t.user][c] \in {"left", "kicked", "error"}
             THEN "join"
        ELSE "pass"

\* C2: for a lookup command the checks run in the order scope, ban,
\* membership; the first failing check decides the denial message and no
\* later check is evaluated; a denied call makes no upstream call; in a
\* private chat an actor who is neither owner nor admin gets the redirect.
C2_GateOrder ==
    \A s \in DOMAIN tasks :
        LET t == tasks[s]
        IN  (t.kind = "msg" /\ t.cmd \in DOMAIN COMMANDS) =>
                /\ IsPrefix(t.checks, <<"scope", "ban", "member">>)
                /\ t.reply = "redirect" => t.checks = <<"scope">>
                /\ t.reply = "banned" => t.checks = <<"scope", "ban">>
                /\ t.reply = "join" => t.checks = <<"scope", "ban", "member">>
                /\ t.reply \in Denials => ~t.called /\ ~t.saved /\ t.data = NoData
                /\ (t.pc = "done" /\ t.stable) =>
                      IF FirstFailing(t) = "pass" THEN t.reply \notin Denials
                      ELSE t.reply = FirstFailing(t)

\* a banned actor outside the required channels asks in a private chat and
\* gets the redirect, the ban and membership checks not made
C2_Witness ==
    \E s \in DOMAIN tasks :
        LET t == tasks[s]
        IN  /\ t.kind = "msg" /\ t.cmd \in DOMAIN COMMANDS /\ t.chat = "private"
            /\ BannedActor(t)
            /\ \E c \in ChannelIds : chat_member[t.user][c] = "left"
            /\ t.pc = "done" /\ t.reply = "redirect" /\ t.checks = <<"scope">>

(***************************************************************************)
(* Properties of the membership check                                      *)
(***************************************************************************)
\* the channels of FORCE_JOIN_CHANNELS, by index, that a finished check saw
\* as left, kicked or failing
SeenMissing(seen) ==
    { i \in 1..Len(seen) : seen[i] \in {"left", "kicked", "error"} }

\* the controls of a keyboard that open the link of channel i
JoinControls(keyboard, i) ==
    { k \in 1..Len(keyboard) : keyboard[k].url = FORCE_JOIN_CHANNELS[i].link }

\* the controls of a keyboard that ask for the check again
VerifyControls(keyboard) ==
    { k \in 1..Len(keyboard) : keyboard[k].callback_data = "verify_join" }

\* the keyboard names each channel of miss once, no other channel, and
\* carries one re-verification control and nothing else
PromptFor(keyboard, miss) ==
    /\ \A i \in 1..Len(FORCE_JOIN_CHANNELS) :
            Cardinality(JoinControls(keyboard, i)) = (IF i \in miss THEN 1 ELSE 0)
    /\ Cardinality(VerifyControls(keyboard)) = 1
    /\ Len(keyboard) = Cardinality(miss) + 1

\* C18: the membership check counts a channel as missing exactly when the
\* query for it returned left or kicked or failed; when at least one channel
\* is missing the actor is denied with the join prompt, and the prompt has
\* exactly one join control per missing channel, none for the others, and
\* exactly one re-verification control; with no channel missing the check
\* lets the actor through.
C18_MissingChannels ==
    \A s \in DOMAIN tasks :
        LET t == tasks[s]
        IN  /\ { t.missing[k] : k \in 1..Len(t.missing) } = SeenMissing(t.seen)
            /\ Len(t.missing) = Cardinality(SeenMissing(t.seen))
            /\ Len(t.seen) = Len(FORCE_JOIN_CHANNELS) =>
                    IF SeenMissing(t.seen) # {}
                    THEN /\ t.pc = "done" /\ t.reply = "join"
                         /\ ~t.called /\ ~t.saved
                         /\ PromptFor(t.keyboard, SeenMissing(t.seen))
                    ELSE /\ t.reply # "join"
                         /\ t.keyboard = << >>

C18_Witness ==
    \E s \in DOMAIN tasks :
        /\ tasks[s].pc = "done" /\ tasks[s].reply = "join"
        /\ tasks[s].seen = <<"member", "kicked">>
        /\ Len(tasks[s].keyboard) = 2

\* a finished re-verification
Verified(c) == cbs[c].pc = "done" /\ cbs[c].out \in {"verified", "prompt"}

\* the channels, by index, the user is missing from right now
MissingNow(user) ==
    { i \in 1..Len(FORCE_JOIN_CHANNELS) :
        chat_member[user][FORCE_JOIN_CHANNELS[i].id] \in {"left", "kicked", "error"} }

VerifyOutcome ==
    \A c \in DOMAIN cbs :
        LET cb == cbs[c]
        IN  /\ cb.pc = "done" =>
                /\ Verified(c)
                /\ cb.out = "verified" <=> SeenMissing(cb.seen) = {}
                /\ cb.out = "verified" => cb.keyboard = << >>
                /\ cb.out = "prompt" => PromptFor(cb.keyboard, SeenMissing(cb.seen))
                /\ cb.stable => SeenMissing(cb.seen) = MissingNow(cb.user)
            /\ \A d \in DOMAIN cbs :
                    (/\ Verified(c) /\ Verified(d) /\ cb.user = cbs[d].user
                     /\ cb.stable /\ cbs[d].stable)
                    => cb.out = cbs[d].out /\ cb.keyboard = cbs[d].keyboard

VerifyStep == cbs' # cbs => UNCHANGED <<tables, cache>>

\* C19: a re-verification runs the membership check and nothing else: its
\* outcome is the success message exactly when the check found no channel
\* missing and the join prompt for the missing channels otherwise, whatever
\* the bans and admins are; no step of it changes a table or the copy
\* cache; two re-verifications of one user with unchanged memberships end
\* with the same message and the same controls.
C19_VerifyOnlyMembership == []VerifyOutcome /\ [][VerifyStep]_vars

C19_Witness ==
    /\ Verified(1) /\ Verified(2)
    /\ cbs[1].user = cbs[2].user /\ cbs[1].stable /\ cbs[2].stable
    /\ cbs[1].out = "verified" /\ cbs[2].out = "verified"
    /\ cbs[1].user \in DOMAIN bans

(***************************************************************************)
(* Properties of the owner's and the admins' way through the gate          *)
(***************************************************************************)
\* the handler asked for the user's ban or memberships, or answered with
\* the ban denial or the join prompt
Screened(t) ==
    \/ t.pc \in {"ban", "member"}
    \/ \E k \in 1..Len(t.checks) : t.checks[k] \in {"ban", "member"}
    \/ t.reply \in {"banned", "join"}

PrivilegedNotScreened ==
    \A s \in DOMAIN tasks :
        Screened(tasks[s]) =>
            /\ tasks[s].user # OWNER_ID
            /\ tasks[s].stable => tasks[s].user \notin admins

\* the step that leaves the admin test of force_join_filter
PrivilegedStep ==
    \A s \in DOMAIN tasks :
        (/\ tasks[s].pc = "gate" /\ tasks'[s].pc # "gate"
         /\ tasks[s].user = OWNER_ID \/ tasks[s].user \in admins)
        => ~Screened(tasks'[s])

\* C20: the owner, and whoever is in the admin table when the gate asks, is
\* never asked for a ban or for memberships and gets neither the ban denial
\* nor the join prompt, also with a ban on the same id and outside every
\* required channel; for the owner this holds whatever the admin table is.
C20_PrivilegedPass == []PrivilegedNotScreened /\ [][PrivilegedStep]_vars

C20_Witness ==
    \E s \in DOMAIN tasks :
        LET t == tasks[s]
        IN  /\ t.pc = "done" /\ t.saved /\ t.stable
            /\ t.user # OWNER_ID /\ t.user \in admins /\ t.user \in DOMAIN bans
            /\ \A c \in ChannelIds : chat_member[t.user][c] = "left"
            /\ OWNER_ID \notin admins

(***************************************************************************)
(* Properties of the admin and owner commands                              *)
(***************************************************************************)
\* C21: no ban command creates a Ban record for the owner's identifier or
\* for an identifier that is in the admin table when the record is made.
C21_PrivilegedNeverBanned ==
    [][\A u \in DOMAIN bans' \ DOMAIN bans : u # OWNER_ID /\ u \notin admins]_vars

\* the actor of the command holds the privilege the command asks for, now
HoldsPrivilege(t) ==
    IF t.cmd \in OwnerCmds THEN t.user = OWNER_ID
    ELSE t.user = OWNER_ID \/ t.user \in admins

\* the body of an admin or owner command runs or has run
BodyEntered(t) ==
    t.kind = "admin" /\ (t.pc = "run" \/ (t.pc = "done" /\ t.reply # "refused"))

PrivilegeHeld ==
    \A s \in DOMAIN tasks :
        BodyEntered(tasks[s]) =>
            /\ tasks[s].allowed
            /\ tasks[s].cmd \in OwnerCmds => tasks[s].user = OWNER_ID

\* the wrapper's answer follows the tables of the moment it asks, and a
\* refusal changes nothing; whatever changes a table from a command is the
\* body of a command that was let in
PrivilegeStep ==
    \A s \in DOMAIN tasks :
        /\ (tasks[s].pc = "priv" /\ tasks'[s].pc # "priv") =>
                IF HoldsPrivilege(tasks[s])
                THEN tasks'[s].pc = "run" /\ UNCHANGED <<tables, cache>>
                ELSE /\ tasks'[s].pc = "done" /\ tasks'[s].reply = "refused"
                     /\ UNCHANGED <<tables, cache, chat_member>>
        /\ (tasks[s].pc = "run" /\ tasks'[s].pc # "run") =>
                tasks[s].allowed /\ tasks'[s].reply # "refused"

\* C22: an admin command enters its body only for an actor who is the owner
\* or in the admin table when the command's wrapper asks, an owner command
\* only for the owner; any other actor gets the refusal and no table or
\* cache entry changes; an admin dropped from the table is refused at the
\* next command.
C22_PrivilegeAtInvocation == []PrivilegeHeld /\ [][PrivilegeStep]_vars

C22_Witness ==
    \E s \in DOMAIN tasks :
        /\ tasks[s].kind = "admin" /\ tasks[s].cmd = "ban"
        /\ tasks[s].pc = "done" /\ tasks[s].reply = "refused"
        /\ tasks[s].user \in INITIAL_ADMINS /\ tasks[s].user \notin admins
        /\ \E u \in DOMAIN bans : bans[u].banned_by = tasks[s].user

\* C23: an admin or owner command whose numeric argument is missing though
\* required, or is not a number, is answered with a usage or invalid-input
\* hint, and no table changes.
C23_MalformedGetsHint ==
    \A s \in DOMAIN tasks :
        LET t == tasks[s]
        IN  (/\ t.kind = "admin" /\ t.pc = "done" /\ t.reply # "refused"
             /\ \/ t.arg = BadArg
                \/ t.arg = NoArg /\ t.cmd \notin {"users", "recentusers", "inactiveusers", "dailystats"})
            => t.reply \in {"usage", "invalid"}

(***************************************************************************)
(* Properties of the steps after the upstream call                         *)
(***************************************************************************)
PipelineSteps == <<"deliver", "save", "mirror">>

\* C15: delivery comes before the Lookup Record write, which comes before
\* the mirror; the write and the mirror are attempted only once the
\* delivery is done and leave it done; a failed write or a failed mirror
\* does not make the handler fail, and after a failed write the mirror is
\* still attempted.
C15_DeliveryFirst ==
    \A s \in DOMAIN tasks :
        LET t == tasks[s]
        IN  /\ IsPrefix(t.trail, PipelineSteps)
            /\ Len(t.trail) >= 2 => Delivered(t)
            /\ t.saved => Len(t.trail) >= 2
            /\ t.mirrored => Len(t.trail) = 3
            /\ Delivered(t) => t.pc \in {"save", "mirror", "done"}
            /\ (Delivered(t) /\ t.pc = "done") => t.trail = PipelineSteps
            /\ t.reply = "error" => t.trail = <<"deliver">>

\* a lookup was delivered, its save failed, and the mirror went out
C15_Witness ==
    \E s \in DOMAIN tasks :
        LET t == tasks[s]
        IN  Delivered(t) /\ t.pc = "done" /\ ~t.saved /\ t.mirrored

\* C16: the summary sent to the log channel is at most MirrorLimit long,
\* whatever the size of the envelope.
C16_MirrorCapped ==
    \A s \in DOMAIN tasks :
        Len(tasks[s].trail) = 3 => tasks[s].mirrorLen <= MirrorLimit

\* the sends of a result that task t began
SendsBegun(t) == Cardinality({ k \in 1..Len(t.trail) : t.trail[k] = "deliver" })

\* C25 as stated: a lookup that was dispatched and has ended has delivered
\* its result, inline or as a file.
C25_AlwaysOneResult ==
    \A s \in DOMAIN tasks :
        (tasks[s].called /\ tasks[s].pc = "done") => tasks[s].reply \in {"inline", "file"}

OneSend ==
    \A s \in DOMAIN tasks :
        LET t == tasks[s]
        IN  t.called =>
                /\ t.pc \in {"api", "deliver"} => SendsBegun(t) = 0 /\ t.reply = "none"
                /\ t.pc \in {"save", "mirror", "done"} =>
                        /\ SendsBegun(t) = 1
                        /\ t.route \in {"inline", "file"}
                        /\ t.reply \in {t.route, "error"}
                        /\ t.reply = "error" => t.pc = "done" /\ ~t.saved /\ ~t.mirrored

\* a dispatched lookup is never taken off its slot before it has ended
NoCancel ==
    \A s \in CompletionSlots :
        (tasks[s].called /\ tasks[s].pc # "done") =>
            /\ tasks'[s].called
            /\ tasks'[s].user = tasks[s].user /\ tasks'[s].cmd = tasks[s].cmd

\* C25: a dispatched lookup ends, whatever the upstream does; when it ends
\* it has begun exactly one send of its result, inline or as a file, and the
\* user has that result unless the send itself raised; nothing takes the
\* lookup off its slot before it ends.
C25_RunsToOneSend ==
    /\ []OneSend
    /\ [][NoCancel]_vars
    /\ \A s \in CompletionSlots : (tasks[s].pc = "api") ~> (tasks[s].pc = "done")

C25_Witness ==
    \E s \in DOMAIN tasks :
        /\ tasks[s].pc = "done" /\ tasks[s].called
        /\ tasks[s].outcome.stage = "timeout"
        /\ tasks[s].reply = "inline" /\ SendsBegun(tasks[s]) = 1

(***************************************************************************)
(* Properties of the user and group tracking                               *)
(***************************************************************************)
\* C26: an interaction that the gate denied (scope, ban or membership) has
\* upserted its actor all the same: with every upsert going through, the
\* actor of a denied interaction has a User row.
C26_UpsertBeforeGate ==
    \A s \in DOMAIN tasks :
        (tasks[s].pc = "done" /\ tasks[s].reply \in {"redirect", "banned", "join"})
        => tasks[s].user \in DOMAIN users

\* C27 as stated: the audit-row insert and the counter increment of one
\* lookup are two separate commits, so no single store write changes both
\* the lookups table and the users table.
C27_SeparateCommits ==
    [][~(lookups' # lookups /\ users' # users)]_vars

\* C27: the audit-row insert and the counter increment of one lookup are
\* two statements under one commit: save_lookup keeps the Lookup Record
\* exactly when it ends without raising, a kept record comes with the
\* increment of the actor's existing User row in the same write, and a
\* save_lookup that raises at the insert, at the update or at the commit
\* leaves both tables as they were.
C27_OneCommit ==
    [][\A s \in DOMAIN tasks :
          SaveStep(s) =>
              LET u == tasks[s].user
              IN  /\ (lookups' # lookups) <=> (tasks'[s].failat = "none")
                  /\ (lookups' # lookups /\ u \in DOMAIN users) =>
                          /\ u \in DOMAIN users'
                          /\ users'[u].lookups = users[u].lookups + 1
                  /\ (lookups' = lookups) => (users' = users)]_vars

\* C31: Lookup Records are append-only and immutable: a step changes the
\* lookups table only by appending one row, and only the save_lookup of a
\* delivered lookup does; deleteuser, ban, unban and removeadmin leave every
\* record as it is, those of the identifier they name included.
C31_RecordsAppendOnly ==
    [][ \/ lookups' = lookups
        \/ /\ Len(lookups') = Len(lookups) + 1
           /\ SubSeq(lookups', 1, Len(lookups)) = lookups
           /\ \E s \in DOMAIN tasks :
                  /\ tasks[s].pc = "save" /\ Delivered(tasks[s])
                  /\ lookups'[Len(lookups')].user_id = tasks[s].user ]_vars

\* the owner deleted the row of a user who has a Lookup Record, and the
\* record is still there
C31_Witness ==
    \E s \in DOMAIN tasks :
        /\ tasks[s].pc = "done" /\ tasks[s].cmd = "deleteuser" /\ tasks[s].reply = "ok"
        /\ tasks[s].arg \notin DOMAIN users
        /\ \E k \in 1..Len(lookups) : lookups[k].user_id = tasks[s].arg

\* C30 as stated: once message_handler is through with a message from a
\* group, the Group table has the group's row, whether the gate let the
\* actor pass or not and whether the command is known or not; and no step
\* takes a row out of the Group table.
C30_GroupAlwaysUpserted ==
    /\ [](\A s \in DOMAIN tasks :
              (/\ tasks[s].kind = "msg"
               /\ tasks[s].chat \in {"group", "supergroup"}
               /\ tasks[s].pc = "done")
              => ChatId(tasks[s]) \in bot_groups)
    /\ [][bot_groups \subseteq bot_groups']_vars

\* /ban or /unban with a numeric id reaches its store write
BanRuns(s) ==
    /\ tasks[s].pc = "run" /\ tasks'[s].pc = "done"
    /\ tasks[s].cmd = "ban" /\ IsNumeric(tasks[s].arg)
UnbanRuns(s) ==
    /\ tasks[s].pc = "run" /\ tasks'[s].pc = "done"
    /\ tasks[s].cmd = "unban" /\ IsNumeric(tasks[s].arg)

\* the ban check of the gate is evaluated
BanChecked(s) == tasks[s].pc = "ban" /\ tasks'[s].pc # "ban"

BanSteps ==
    /\ \A s \in DOMAIN tasks :
            /\ BanRuns(s) =>
                    /\ DOMAIN bans' = DOMAIN bans \cup {tasks[s].arg}
                    /\ bans'[tasks[s].arg] =
                           [reason |-> IF tasks[s].reason = "" THEN "No reason"
                                       ELSE tasks[s].reason,
                            banned_by |-> tasks[s].user]
                    /\ \A u \in DOMAIN bans \ {tasks[s].arg} : bans'[u] = bans[u]
            /\ UnbanRuns(s) =>
                    /\ DOMAIN bans' = DOMAIN bans \ {tasks[s].arg}
                    /\ \A u \in DOMAIN bans' : bans'[u] = bans[u]
            /\ (BanRuns(s) \/ UnbanRuns(s)) =>
                    UNCHANGED <<admins, users, lookups, bot_groups>>
            /\ BanChecked(s) =>
                    ((tasks'[s].pc = "done" /\ tasks'[s].reply = "banned")
                        <=> tasks[s].user \in DOMAIN bans)
    /\ (\A s \in DOMAIN tasks : ~(BanRuns(s) \/ UnbanRuns(s))) => bans' = bans

\* C29: the Ban table holds one record per banned identifier; /ban of an
\* identifier that has a record leaves one record, with the new reason and
\* the new issuing admin; only /ban and /unban change the table, so from a
\* ban to the next unban every ban check of the identifier denies it, and
\* from an unban to the next ban none does; /ban and /unban change no other
\* table.
C29_OneBanPerId ==
    [][BanSteps]_vars

\* a user banned by the owner without a reason was banned again by the
\* admin for "spam": the one record names the admin and the new reason
C29_Witness ==
    \E s \in DOMAIN tasks :
        /\ tasks[s].pc = "done" /\ tasks[s].cmd = "ban" /\ tasks[s].prior
        /\ tasks[s].user # OWNER_ID
        /\ tasks[s].arg \in DOMAIN bans
        /\ bans[tasks[s].arg] = [reason |-> "spam", banned_by |-> tasks[s].user]
        /\ \E s2 \in DOMAIN tasks :
               /\ tasks[s2].pc = "done" /\ tasks[s2].reply = "banned"
               /\ tasks[s2].user = tasks[s].arg

\* the Lookup Records of user_id written after its n first ones
RecordsSince(user_id, n) ==
    { k \in (n + 1)..Len(lookups) : lookups[k].user_id = user_id }

\* C28: for each User row the lookup counter equals the number of Lookup
\* Records of that identifier written since the row was inserted, whatever
\* lookups, upserts, failed upserts, failed saves and deleteuser followed by
\* re-creation came before.
C28_CounterMatchesRecords ==
    \A u \in DOMAIN users :
        users[u].lookups = Cardinality(RecordsSince(u, users[u].since))

\* a row deleted by /deleteuser and inserted again counts the one lookup
\* made since, while two Lookup Records carry its identifier
C28_Witness ==
    \E u \in DOMAIN users :
        /\ users[u].since = 1
        /\ users[u].lookups = 1
        /\ Cardinality(RecordsSince(u, 0)) = 2

\* C34: an update_user call for identifier u leaves the lookup counter and
\* the join timestamp of an existing row of u as they were and sets its
\* last-seen time; it creates a missing row with counter 0; it leaves every
\* other User row and the admins, bans, lookups and groups tables and the
\* copy cache unchanged.
C34_UpsertFrame ==
    [][\A s \in DOMAIN tasks :
          (tasks[s].pc = "upsert" /\ tasks'[s].pc # "upsert") =>
              LET u == tasks[s].user
              IN  /\ UNCHANGED <<admins, bans, lookups, bot_groups, copy_cache>>
                  /\ DOMAIN users \subseteq DOMAIN users'
                  /\ DOMAIN users' \subseteq DOMAIN users \cup {u}
                  /\ \A v \in DOMAIN users \ {u} : users'[v] = users[v]
                  /\ u \in DOMAIN users =>
                          /\ users'[u].lookups = users[u].lookups
                          /\ users'[u].joined_date = users[u].joined_date
                          /\ users'[u].last_seen \in {users[u].last_seen, now}
                  /\ (u \notin DOMAIN users /\ u \in DOMAIN users') =>
                          users'[u].lookups = 0]_vars

\* the upsert of a second lookup has just refreshed a row that counts one
\* lookup and was inserted at an earlier time, next to another user's row
C34_Witness ==
    \E s \in DOMAIN tasks :
        LET u == tasks[s].user
        IN  /\ tasks[s].kind = "msg" /\ tasks[s].pc = "group"
            /\ u \in DOMAIN users
            /\ users[u].lookups = 1
            /\ users[u].last_seen = now
            /\ users[u].joined_date < now
            /\ DOMAIN users # {u}

\* C35: when K lookups of one user that ran concurrently, interleaved at
\* their awaits in any way, have all completed, none of their store writes
\* having failed and the row not deleted, the lookups table holds exactly K
\* rows, all of that user, and the user's counter is exactly K.
C35_NoLostUpdate ==
    LET ran == { s \in DOMAIN tasks : tasks[s].pc = "done" }
    IN  (ran # {} /\ \A s \in DOMAIN tasks : tasks[s].pc \in {"idle", "done"}) =>
            \A s \in ran :
                LET u == tasks[s].user
                IN  /\ Len(lookups) = Cardinality(ran)
                    /\ \A k \in 1..Len(lookups) : lookups[k].user_id = u
                    /\ u \in DOMAIN users
                    /\ users[u].lookups = Cardinality(ran)

\* three lookups that were in flight together have all completed
C35_Witness ==
    /\ \A s \in DOMAIN tasks : tasks[s].pc = "done" /\ tasks[s].saved
    /\ Cardinality(DOMAIN tasks) = 3
    /\ Len(lookups) = 3

\* message_handler is in group_only or force_join_filter and takes a step
GateStep(s) ==
    /\ tasks[s].kind = "msg"
    /\ tasks[s].pc \in {"scope", "gate", "ban", "member"}
    /\ (tasks'[s].pc # tasks[s].pc \/ tasks'[s].idx # tasks[s].idx)

\* the gate has denied the lookup
Denied(t) ==
    t.kind = "msg" /\ t.pc = "done" /\ t.reply \in {"redirect", "banned", "join"}

\* C36: a message to the lookup entry point that the gate denies (scope,
\* ban or missing membership) changes nothing: no step of group_only or
\* force_join_filter writes the users, groups, lookups, admins or bans
\* table or the copy cache, the handler ends at the denial, and a denied
\* handler has made no upstream call, no save and no mirror.
C36_DeniedChangesNothing ==
    /\ [](\A s \in DOMAIN tasks :
              Denied(tasks[s]) =>
                  /\ ~tasks[s].called /\ ~tasks[s].saved /\ ~tasks[s].mirrored
                  /\ tasks[s].trail = << >>)
    /\ [][\A s \in DOMAIN tasks :
              /\ GateStep(s) =>
                     UNCHANGED <<admins, bans, users, lookups, bot_groups, copy_cache>>
              /\ (Denied(tasks[s]) /\ tasks'[s] # tasks[s]) =>
                     \/ tasks'[s].pc = "scope" /\ tasks'[s].trail = << >>
                     \/ tasks'[s].pc = "upsert" /\ tasks'[s].kind # "msg"
                     \/ tasks'[s] = [tasks[s] EXCEPT !.stable = FALSE]]_vars

\* a banned user's lookup in a group was denied with every table still
\* empty but the Ban table
C36_Witness ==
    \E s \in DOMAIN tasks :
        /\ Denied(tasks[s]) /\ tasks[s].reply = "banned" /\ tasks[s].chat = "group"
        /\ tasks[s].user \in DOMAIN bans
        /\ users = << >> /\ bot_groups = {} /\ lookups = << >> /\ copy_cache = << >>

\* C33: for every User row the lookup counter is at most the number of
\* Lookup Records that carry the row's identifier, whatever lookups, failed
\* saves, upserts and deleteuser came before.
C33_CounterNotAhead ==
    \A u \in DOMAIN users :
        users[u].lookups <= Cardinality({ k \in 1..Len(lookups) : lookups[k].user_id = u })

\* the owner deleted a user's row after a lookup and an upsert inserted it
\* again: the counter is 0, behind the one record of that identifier
C33_Witness ==
    \E u \in DOMAIN users, s \in DOMAIN tasks :
        /\ users[u].lookups = 0
        /\ Cardinality({ k \in 1..Len(lookups) : lookups[k].user_id = u }) = 1
        /\ tasks[s].pc = "done" /\ tasks[s].cmd = "deleteuser" /\ tasks[s].arg = u

\* a save_lookup raised between the insert and the commit for an actor who
\* has a User row: no Lookup Record and no increment are kept
C27_Witness ==
    \E s \in DOMAIN tasks :
        /\ tasks[s].failat \in {"update", "commit"}
        /\ tasks[s].user \in DOMAIN users
        /\ users[tasks[s].user].lookups = 0
        /\ lookups = << >>

(***************************************************************************)
(* Inputs of the sanitizer: texts put together from a few fragments        *)
(***************************************************************************)
MaxFrags == 4

Fragments ==
    { <<"c", "r", "e">>,
      <<"d", "i", "t">>,
      <<"C", "r", "E", "d", "I", "t">>,
      <<"D", "m">>,
      <<"t", "o", " ", "b", "u", "y", " ", "a", "c", "c", "e", "s", "s">>,
      <<" ">>,
      <<"\n">>,
      <<"x">> }

RECURSIVE Concat(_)
Concat(fs) == IF fs = << >> THEN << >> ELSE Head(fs) \o Concat(Tail(fs))

Texts == { Concat(fs) : fs \in UNION { [1..n -> Fragments] : n \in 0..MaxFrags } }

ExtraBlacklists == { NoExtraBlacklist, NumExtraBlacklist, Tg2numExtraBlacklist }

InitSanitize ==
    /\ san_text \in Texts
    /\ san_extra \in ExtraBlacklists
    /\ san_out1 = << >>
    /\ san_out2 = << >>
    /\ san_n = 0
    /\ shown = << >>
    /\ InitBot({}, {})

\* cleaned = clean_branding(json_str, cmd_info.get("extra_blacklist", []))
Sanitize ==
    /\ san_n = 0
    /\ san_out1' = clean_branding(san_text, san_extra)
    /\ san_n' = 1
    /\ UNCHANGED <<san_text, san_extra, san_out2, shown, botvars>>

\* the sanitizer applied to its own output
SanitizeAgain ==
    /\ san_n = 1
    /\ san_out2' = clean_branding(san_out1, san_extra)
    /\ san_n' = 2
    /\ UNCHANGED <<san_text, san_extra, san_out1, shown, botvars>>

NextSanitize == Sanitize \/ SanitizeAgain

SpecSanitize == InitSanitize /\ [][NextSanitize]_vars

(***************************************************************************)
(* SpecShown: the texts a lookup hands to the user.  The upstream answers  *)
(* {"text": san_text}; the handler shows the envelope inline or as a file, *)
(* and after an inline answer the Copy button shows it again.  Only the    *)
(* lookup-derived part of each message is kept (not the fixed tags,        *)
(* caption and footers).  The texts hold no character that json.dumps      *)
(* escapes.                                                                *)
(***************************************************************************)
\* json.dumps({"text": t, "developer": ..., "powered_by": ...}, indent=2,
\* ensure_ascii=False)
JsonText(t) ==
    <<"{", "\n", " ", " ", "\"", "t", "e", "x", "t", "\"", ":", " ", "\"">>
    \o t \o
    <<"\"", ",", "\n", " ", " ", "\"", "d", "e", "v", "e", "l", "o", "p", "e", "r", "\"", ":", " ", "\"", "@", "N", "u", "l", "l", "p", "r", "o", "t", "o", "c", "o", "l", "_", "X", "\"", ",", "\n", " ", " ", "\"", "p", "o", "w", "e", "r", "e", "d", "_", "b", "y", "\"", ":", " ", "\"", "N", "U", "L", "L", " ", "P", "R", "O", "T", "O", "C", "O", "L", "\"", "\n", "}">>

\* html.escape(t): & < > " ' become entities
RECURSIVE HtmlEscape(_)
HtmlEscape(t) ==
    IF t = << >> THEN << >>
    ELSE (IF Head(t) = "&" THEN <<"&", "a", "m", "p", ";">>
          ELSE IF Head(t) = "<" THEN <<"&", "l", "t", ";">>
          ELSE IF Head(t) = ">" THEN <<"&", "g", "t", ";">>
          ELSE IF Head(t) = "\"" THEN <<"&", "q", "u", "o", "t", ";">>
          ELSE IF Head(t) = "'" THEN <<"&", "#", "x", "2", "7", ";">>
          ELSE <<Head(t)>>) \o HtmlEscape(Tail(t))

\* a run of characters that occur in no denylist entry, long enough to put
\* output_text over the size threshold
Padding == [i \in 1..SizeThreshold |-> "7"]

ShownFragments ==
    { <<"c", "r", "e">>, <<"d", "i", "t">>, <<"o", "w", "n", "e", "r">>,
      <<"v", "a", "l", "i", "d", "i", "t", "y">>, <<"x">> }
ShortTexts == UNION { [1..n -> ShownFragments] : n \in 1..2 }
ShownTexts ==
    { Concat(fs) : fs \in ShortTexts } \cup { Concat(fs) \o Padding : fs \in ShortTexts }

InitShown ==
    /\ san_text \in ShownTexts
    /\ san_extra \in ExtraBlacklists
    /\ san_out1 = << >>
    /\ san_out2 = << >>
    /\ san_n = 0
    /\ shown = << >>
    /\ InitBot({}, {})

\* handle_command from json_str to reply_document / reply_text
ShowResult ==
    LET json_str == JsonText(san_text)
    IN  /\ san_n = 0
        /\ IF Route(Ser(Len(json_str), 0, 0, 0, 0)) = "file"
           THEN /\ shown' = Append(shown, [via |-> "file", text |-> json_str])
                /\ UNCHANGED san_out1
           ELSE /\ san_out1' = clean_branding(json_str, san_extra)
                /\ shown' = Append(shown, [via |-> "inline", text |-> HtmlEscape(san_out1')])
        /\ san_n' = 1
        /\ UNCHANGED <<san_text, san_extra, san_out2, botvars>>

\* callback_handler, "copy:" with a live entry: json.dumps(entry['data'], indent=2)
ShowCopy ==
    /\ san_n = 1
    /\ shown[1].via = "inline"
    /\ shown' = Append(shown, [via |-> "copy", text |-> JsonText(san_text)])
    /\ san_n' = 2
    /\ UNCHANGED <<san_text, san_extra, san_out1, san_out2, botvars>>

NextShown == ShowResult \/ ShowCopy

SpecShown == InitShown /\ [][NextShown]_vars

\* C24: no lookup-derived text that reaches the user, inline, as a file or
\* through the Copy button, contains an entry of the effective denylist.
C24_ShownWithoutDenylist ==
    \A k \in 1..Len(shown) :
        \A i \in 1..Len(EffectiveBlacklist(san_extra)) :
            ~ContainsCI(shown[k].text, EffectiveBlacklist(san_extra)[i])

\* C3: every entry of the effective denylist that occurs in the text, in any
\* letter-case, is absent (in every letter-case) from the sanitized text.
C3_DenylistStripped ==
    san_n >= 1 =>
        \A i \in 1..Len(EffectiveBlacklist(san_extra)) :
            LET d == EffectiveBlacklist(san_extra)[i]
            IN  ContainsCI(san_text, d) => ~ContainsCI(san_out1, d)

\* C4: sanitizing a sanitized text changes nothing:
\* sanitize(sanitize(t)) = sanitize(t).
C4_Idempotent == san_n = 2 => san_out2 = san_out1

====
